---- MODULE Spec2Model ----
(***************************************************************************)
(* The daily task-lifecycle and rollover engine of the Home Rewards Kiosk  *)
(* (src/app/domain/services.py, src/app/domain/seed.py).                   *)
(*                                                                         *)
(* The database is four tables, each a set of rows (records).  A handler   *)
(* of services.py is an operator from the world before the call (the       *)
(* tables, the calendar date and the count of utcnow() readings) to the    *)
(* world after its commit and the value it returns; an action applies one  *)
(* handler to the current state.  services.py defines several handlers     *)
(* twice; Python binds the name to the later definition, which is the one  *)
(* modelled.                                                               *)
(***************************************************************************)
EXTENDS Integers, Sequences, FiniteSets, TLC

VARIABLES
    today,      \* datetime.date.today(), as a day number counted from a Monday
    clock,      \* how many times datetime.datetime.utcnow() has been read
    children,   \* table children
    templates,  \* table task_template_items
    tasks,      \* table daily_task_instances
    settings,   \* table settings
    reqs,       \* per concurrent request: where it is in ensure_today_initialized
    kiosk,      \* the tables of home_rewards_kiosk, the wallet variant
    last        \* the last handler run: its name, the case it met, what it returned

vars == <<today, clock, children, templates, tasks, settings, reqs, kiosk, last>>

----------------------------------------------------------------------------
(* Bounds of the model. *)

\* midnights that pass
MaxDays == 1
\* readings of utcnow()
MaxClock == 3
\* rows of each seed list (weekday_tasks, weekend_tasks) that seed_data inserts
SeedRows == 1
\* rows the templates table may hold, and the largest id it gives out
MaxTemplates == 3
\* requests in flight at once
NumRequests == 2
\* the largest id the children table gives out
MaxChildId == 5
\* one-off tasks of one title a day may hold
MaxTodayTasks == 1
\* required instances one child may hold on one day
MaxRequired == 50
\* minutes a wallet may hold
MaxMinutes == 30

\* Day numbers are counted from a Monday, so day 4 is a Friday and the first
\* midnight crosses from a WEEKDAY into a WEEKEND.
Calendar == 4 .. (4 + MaxDays)
FirstDay == CHOOSE d \in Calendar : \A e \in Calendar : d <= e
LastDay == CHOOSE d \in Calendar : \A e \in Calendar : e <= d

Requests == 1 .. NumRequests

----------------------------------------------------------------------------
(* Python values. *)

\* An Optional value is a sequence of length at most one.
None == << >>
Some(x) == << x >>

Max(S) == CHOOSE x \in S : \A y \in S : y <= x
Min2(a, b) == IF a <= b THEN a ELSE b

\* An INTEGER PRIMARY KEY column: the next row gets the largest id in use plus one.
NewId(rows) == IF rows = {} THEN 1 ELSE Max({r.id : r \in rows}) + 1

\* select(...).order_by(column): the rows as a list, ascending in key, rows of
\* equal key in id order.
RECURSIVE OrderBy(_, _)
OrderBy(rows, key) ==
    IF rows = {} THEN << >>
    ELSE LET first == CHOOSE r \in rows : \A s \in rows :
                         \/ key[r] < key[s]
                         \/ key[r] = key[s] /\ r.id <= s.id
         IN << first >> \o OrderBy(rows \ {first}, key)

\* session.get(Model, id): the rows with that primary key (none or one).
Get(rows, id) == {r \in rows : r.id = id}
TheRow(rows, id) == CHOOSE r \in rows : r.id = id

CATEGORIES == <<"SCHOOLWORK", "HYGIENE", "HELPFUL">>
MAX_CHILDREN == 5
MIN_CHILDREN == 1

\* date.weekday(): Monday is 0, Sunday is 6.
Weekday(d) == d % 7
TemplateTypeOf(d) == IF Weekday(d) >= 5 THEN "WEEKEND" ELSE "WEEKDAY"

\* today_str(): the ISO string of a date. Two dates have the same string iff
\* they are the same day, and the code only compares these strings for
\* equality, so the string is represented by the day number.
today_str(w) == w.today

----------------------------------------------------------------------------
(* The world a handler runs in. *)

World == [today |-> today, clock |-> clock, children |-> children,
          templates |-> templates, tasks |-> tasks, settings |-> settings]

Ok(w) == [w |-> w, err |-> None]
Fail(w, msg) == [w |-> w, err |-> Some(msg)]

----------------------------------------------------------------------------
(* seed.py *)

weekday_tasks == <<
    <<"SCHOOLWORK", "Math Homework", TRUE, None, 1>>,
    <<"SCHOOLWORK", "Science Review", TRUE, None, 2>>,
    <<"SCHOOLWORK", "Reading", TRUE, None, 3>>,
    <<"HYGIENE", "Brush Teeth", TRUE, None, 1>>,
    <<"HYGIENE", "Shower", TRUE, None, 2>>,
    <<"HYGIENE", "Change Clothes", TRUE, None, 3>>,
    <<"HELPFUL", "Make Bed", TRUE, None, 1>>,
    <<"HELPFUL", "Do Dishes", FALSE, Some("+15 min"), 2>>,
    <<"HELPFUL", "Fold Laundry", FALSE, Some("$2"), 3>> >>

weekend_tasks == <<
    <<"SCHOOLWORK", "Reading", TRUE, None, 1>>,
    <<"SCHOOLWORK", "Creative Writing", TRUE, None, 2>>,
    <<"HYGIENE", "Brush Teeth", TRUE, None, 1>>,
    <<"HYGIENE", "Shower", TRUE, None, 2>>,
    <<"HELPFUL", "Make Bed", TRUE, None, 1>>,
    <<"HELPFUL", "Help Cook", FALSE, Some("+15 min"), 2>>,
    <<"HELPFUL", "Yard Help", FALSE, Some("$2"), 3>> >>

SeedChildren == {
    [id |-> 1, name |-> "Child 1", display_order |-> 0, color |-> None],
    [id |-> 2, name |-> "Child 2", display_order |-> 1, color |-> None],
    [id |-> 3, name |-> "Child 3", display_order |-> 2, color |-> None] }

TemplateRow(id, type, row) ==
    [id |-> id, template_type |-> type, category |-> row[1], title |-> row[2],
     required |-> row[3], reward_text |-> row[4], sort_order |-> row[5],
     child_id |-> None]

\* The rows seed_data adds to an empty templates table: the weekday list, then
\* the weekend list, ids in insertion order. The model keeps the first
\* SeedRows rows of each list.
SeedTemplates ==
    LET nd == Min2(SeedRows, Len(weekday_tasks))
        ne == Min2(SeedRows, Len(weekend_tasks))
    IN {TemplateRow(i, "WEEKDAY", weekday_tasks[i]) : i \in 1 .. nd}
       \cup {TemplateRow(nd + i, "WEEKEND", weekend_tasks[i]) : i \in 1 .. ne}

seed_data(w) ==
    LET has_children == w.children # {}
        has_templates == w.templates # {}
    IN [w EXCEPT !.children = IF has_children THEN @ ELSE SeedChildren,
                 !.templates = IF has_templates THEN @ ELSE SeedTemplates]

----------------------------------------------------------------------------
(* services.py: settings and the daily rollover *)

DefaultSettings ==
    [id |-> 1, daily_reward_text |-> "Playtime is unlocked!", last_reset_date |-> None]

\* The world after get_settings and the row it returns, on a table of one row
\* at most. scalar_one_or_none raises on a table of two rows or more: the
\* requests that can meet one are StartSelect's.
get_settings(w) ==
    IF w.settings = {}
    THEN [w |-> [w EXCEPT !.settings = {DefaultSettings}], row |-> DefaultSettings]
    ELSE [w |-> w, row |-> CHOOSE s \in w.settings : TRUE]

\* DailyTaskInstance(...) as ensure_today_initialized and create_child build it.
InstanceOf(id, date, child, item) ==
    [id |-> id, date |-> date, child_id |-> child.id, category |-> item.category,
     title |-> item.title, required |-> item.required,
     reward_text |-> item.reward_text, sort_order |-> item.sort_order,
     state |-> "OPEN", claimed_at |-> None, approved_at |-> None]

\* ItemsFor with the child-scope test (line 637) left out.
ItemsForAnyChild(child, items) == items

\* The inner loop: the items a child gets, in order.
ItemsFor(child, items) ==
    SelectSeq(items, LAMBDA item : ~(item.child_id # None /\ item.child_id # Some(child.id)))

\* for child in children: for item in template_items: the pairs not skipped.
RECURSIVE LoopPairs(_, _)
LoopPairs(kids, items) ==
    IF kids = << >> THEN << >>
    ELSE LET mine == ItemsFor(Head(kids), items)
         IN [i \in 1 .. Len(mine) |-> <<Head(kids), mine[i]>>] \o LoopPairs(Tail(kids), items)

\* The rows session.add queued, with the ids the commit gives them.
Materialize(rows, pairs, date) ==
    LET base == NewId(rows)
    IN {InstanceOf(base + i - 1, date, pairs[i][1], pairs[i][2]) : i \in 1 .. Len(pairs)}

TemplateItems(w, template_type) ==
    OrderBy({t \in w.templates : t.template_type = template_type},
            [t \in w.templates |-> t.sort_order])

ChildrenInOrder(w) == OrderBy(w.children, [c \in w.children |-> c.display_order])

\* RolloverBody that also clears out the instances of earlier days.
RolloverBodyPurges(w, settings_id, current_date, template_type) ==
    LET kids == OrderBy(w.children, [c \in w.children |-> c.display_order])
        template_items == OrderBy({t \in w.templates : t.template_type = template_type},
                                  [t \in w.templates |-> t.sort_order])
        kept == {t \in w.tasks : t.date = current_date}
        added == Materialize(w.tasks, LoopPairs(kids, template_items), current_date)
    IN [w EXCEPT !.tasks = kept \cup added,
                 !.settings = {IF s.id = settings_id
                               THEN [s EXCEPT !.last_reset_date = Some(current_date)]
                               ELSE s : s \in @}]

\* RolloverBody with the write of last_reset_date (line 652) left out.
RolloverBodyKeepsGate(w, settings_id, current_date, template_type) ==
    LET kids == OrderBy(w.children, [c \in w.children |-> c.display_order])
        template_items == OrderBy({t \in w.templates : t.template_type = template_type},
                                  [t \in w.templates |-> t.sort_order])
        added == Materialize(w.tasks, LoopPairs(kids, template_items), current_date)
    IN [w EXCEPT !.tasks = @ \cup added]

\* RolloverBody giving a new instance the state and timestamps of the child's
\* instance of the same category and place from the day before, where there
\* is one.
RolloverBodyCarriesOver(w, settings_id, current_date, template_type) ==
    LET kids == ChildrenInOrder(w)
        template_items == TemplateItems(w, template_type)
        added == Materialize(w.tasks, LoopPairs(kids, template_items), current_date)
        Before(t) == {u \in w.tasks : /\ u.date = current_date - 1
                                      /\ u.child_id = t.child_id
                                      /\ u.category = t.category
                                      /\ u.sort_order = t.sort_order}
        Carried(t) == IF Before(t) = {} THEN t
                      ELSE LET u == CHOOSE x \in Before(t) : TRUE
                           IN [t EXCEPT !.state = u.state, !.claimed_at = u.claimed_at,
                                        !.approved_at = u.approved_at]
    IN [w EXCEPT !.tasks = @ \cup {Carried(t) : t \in added},
                 !.settings = {IF s.id = settings_id
                               THEN [s EXCEPT !.last_reset_date = Some(current_date)]
                               ELSE s : s \in @}]


\* Lines 624-653: what runs once the gate has been passed. The settings row is
\* written by primary key.
RolloverBody(w, settings_id, current_date, template_type) ==
    LET kids == ChildrenInOrder(w)
        template_items == TemplateItems(w, template_type)
        added == Materialize(w.tasks, LoopPairs(kids, template_items), current_date)
    IN [w EXCEPT !.tasks = @ \cup added,
                 !.settings = {IF s.id = settings_id
                               THEN [s EXCEPT !.last_reset_date = Some(current_date)]
                               ELSE s : s \in @}]

\* ensure_today_initialized with the test of the gate (lines 620-621) left out.
ensure_today_initialized_ungated(w) ==
    LET got == get_settings(seed_data(w))
    IN RolloverBody(got.w, got.row.id, today_str(w), TemplateTypeOf(w.today))

ensure_today_initialized(w) ==
    LET got == get_settings(seed_data(w))
        current_date == today_str(w)
    IN IF got.row.last_reset_date = Some(current_date)
       THEN got.w
       ELSE RolloverBody(got.w, got.row.id, current_date, TemplateTypeOf(w.today))

\* build_state with the call of ensure_today_initialized (line 657) left out.
build_state_reads_only(w) ==
    w

\* build_state: the world after the call (the snapshot it returns reads it).
build_state(w) ==
    ensure_today_initialized(w)

\* The place of a category name in the order of Python strings, by which
\* sorted() compares the first component of the key: the three of CATEGORIES
\* and "CHORES", a category string that is not one of them.
CategoryRank(category) ==
    CASE category = "CHORES" -> 0
      [] category = "HELPFUL" -> 1
      [] category = "HYGIENE" -> 2
      [] category = "SCHOOLWORK" -> 3

\* child_tasks with the filter on the date (line 662) left out.
child_tasks_any_date(w, child) ==
    LET mine == {t \in w.tasks : t.child_id = child.id}
    IN OrderBy(mine, [t \in mine |-> CategoryRank(t.category) * 1000 + t.sort_order])

\* Lines 661-673: the child's instances dated today, sorted by (category,
\* sort_order); sorted() is stable, so instances of equal key stay in the order
\* of the select. Sort orders are below 1000.
child_tasks(w, child) ==
    LET mine == {t \in w.tasks : t.date = today_str(w) /\ t.child_id = child.id}
    IN OrderBy(mine, [t \in mine |-> CategoryRank(t.category) * 1000 + t.sort_order])

\* int((required_approved / required_total) * 100) if required_total else 0.
\* The quotient is a float: for totals below 60 the truncated product is the
\* integer floor except at 29/50, where 0.58 * 100 is 57.99999999999999.
percent_complete(required_approved, required_total) ==
    IF required_total = 0 THEN 0
    ELSE IF required_approved = 29 /\ required_total = 50 THEN 57
    ELSE (required_approved * 100) \div required_total

\* child_state with pending_count taken as the number of instances that have
\* left OPEN, in place of those in PENDING (line 703).
child_state_counts_claimed(w, child) ==
    LET list == child_tasks(w, child)
        rows == {list[i] : i \in 1 .. Len(list)}
        required_total == Cardinality({t \in rows : t.required})
        required_approved == Cardinality({t \in rows : t.required /\ t.state = "APPROVED"})
    IN [id |-> child.id, name |-> child.name, display_order |-> child.display_order,
        color |-> child.color,
        percent_complete |-> percent_complete(required_approved, required_total),
        unlocked |-> (required_total = required_approved),
        pending_count |-> Cardinality({t \in rows : t.state # "OPEN"}),
        categories |-> [c \in {CATEGORIES[k] : k \in 1 .. Len(CATEGORIES)} |->
                          SelectSeq([i \in 1 .. Len(list) |-> list[i].id],
                                    LAMBDA id : TheRow(rows, id).category = c)],
        category_progress |-> [c \in {CATEGORIES[k] : k \in 1 .. Len(CATEGORIES)} |->
                          [approved |-> Cardinality({t \in rows : t.category = c
                                                                /\ t.state = "APPROVED"}),
                           total |-> Cardinality({t \in rows : t.category = c})]]]


\* Lines 673-717: one entry of child_states.
child_state(w, child) ==
    LET list == child_tasks(w, child)
        rows == {list[i] : i \in 1 .. Len(list)}
        required_total == Cardinality({t \in rows : t.required})
        required_approved == Cardinality({t \in rows : t.required /\ t.state = "APPROVED"})
    IN [id |-> child.id, name |-> child.name, display_order |-> child.display_order,
        color |-> child.color,
        percent_complete |-> percent_complete(required_approved, required_total),
        unlocked |-> (required_total = required_approved),
        pending_count |-> Cardinality({t \in rows : t.state = "PENDING"}),
        categories |-> [c \in {CATEGORIES[k] : k \in 1 .. Len(CATEGORIES)} |->
                          SelectSeq([i \in 1 .. Len(list) |-> list[i].id],
                                    LAMBDA id : TheRow(rows, id).category = c)],
        category_progress |-> [c \in {CATEGORIES[k] : k \in 1 .. Len(CATEGORIES)} |->
                          [approved |-> Cardinality({t \in rows : t.category = c
                                                                /\ t.state = "APPROVED"}),
                           total |-> Cardinality({t \in rows : t.category = c})]]]

\* Whether build_state raises KeyError at line 680 or 692: the dicts of lines
\* 674-675 have the keys of CATEGORIES only, and the loop indexes them with the
\* category of every instance dated today of every child of the roster.
build_state_raises(w) ==
    LET w1 == ensure_today_initialized(w)
    IN \E child \in w1.children : \E t \in w1.tasks :
          /\ t.date = today_str(w1)
          /\ t.child_id = child.id
          /\ t.category \notin {CATEGORIES[k] : k \in 1 .. Len(CATEGORIES)}

\* The dict build_state returns (lines 658-723), read after its rollover, when
\* it does not raise.
state_response(w) ==
    LET w1 == ensure_today_initialized(w)
        kids == ChildrenInOrder(w1)
    IN [date |-> today_str(w1),
        children |-> [i \in 1 .. Len(kids) |-> child_state(w1, kids[i])],
        daily_reward_text |-> get_settings(w1).row.daily_reward_text]

----------------------------------------------------------------------------
(* services.py: the roster *)

\* create_child with the loop of lines 157-171 run for every child of the
\* roster instead of the new one.
create_child_backfills_all(w, data) ==
    LET w1 == ensure_today_initialized(w)
        kids == ChildrenInOrder(w1)
        requested_order == IF data.display_order = None THEN Len(kids)
                           ELSE data.display_order[1]
        new_child == [id |-> NewId(w1.children), name |-> data.name,
                      display_order |-> requested_order, color |-> None]
        shifted == {IF c.display_order >= requested_order
                    THEN [c EXCEPT !.display_order = @ + 1] ELSE c : c \in w1.children}
        w2 == [w1 EXCEPT !.children = shifted \cup {new_child}]
        template_items == TemplateItems(w2, TemplateTypeOf(w.today))
        added == Materialize(w2.tasks, LoopPairs(ChildrenInOrder(w2), template_items),
                             today_str(w))
    IN IF Len(kids) >= MAX_CHILDREN
       THEN Fail(w1, "Maximum of " \o ToString(MAX_CHILDREN) \o " children allowed")
       ELSE IF requested_order < 0 \/ requested_order > Len(kids)
            THEN Fail(w1, "display_order must be between 0 and " \o ToString(Len(kids)))
            ELSE Ok([w2 EXCEPT !.tasks = @ \cup added])

\* create_child with the commit of line 143 moved before the two tests: the
\* refused call keeps the row it added.
create_child_commits_first(w, data) ==
    LET w1 == ensure_today_initialized(w)
        kids == ChildrenInOrder(w1)
        requested_order == IF data.display_order = None THEN Len(kids)
                           ELSE data.display_order[1]
        new_child == [id |-> NewId(w1.children), name |-> data.name,
                      display_order |-> requested_order, color |-> None]
        shifted == {IF c.display_order >= requested_order
                    THEN [c EXCEPT !.display_order = @ + 1] ELSE c : c \in w1.children}
        w2 == [w1 EXCEPT !.children = shifted \cup {new_child}]
        template_items == TemplateItems(w2, TemplateTypeOf(w.today))
        added == Materialize(w2.tasks, LoopPairs(<<new_child>>, template_items),
                             today_str(w))
    IN IF Len(kids) >= MAX_CHILDREN
       THEN Fail(w2, "Maximum of " \o ToString(MAX_CHILDREN) \o " children allowed")
       ELSE IF requested_order < 0 \/ requested_order > Len(kids)
            THEN Fail(w2, "display_order must be between 0 and " \o ToString(Len(kids)))
            ELSE Ok([w2 EXCEPT !.tasks = @ \cup added])

\* create_child with the shift of the children at or after the requested place
\* (lines 137-139) left out.
create_child_no_shift(w, data) ==
    LET w1 == ensure_today_initialized(w)
        kids == ChildrenInOrder(w1)
        requested_order == IF data.display_order = None THEN Len(kids)
                           ELSE data.display_order[1]
        new_child == [id |-> NewId(w1.children), name |-> data.name,
                      display_order |-> requested_order, color |-> None]
        w2 == [w1 EXCEPT !.children = @ \cup {new_child}]
        template_items == TemplateItems(w2, TemplateTypeOf(w.today))
        added == Materialize(w2.tasks, LoopPairs(<<new_child>>, template_items),
                             today_str(w))
    IN IF Len(kids) >= MAX_CHILDREN
       THEN Fail(w1, "Maximum of " \o ToString(MAX_CHILDREN) \o " children allowed")
       ELSE IF requested_order < 0 \/ requested_order > Len(kids)
            THEN Fail(w1, "display_order must be between 0 and " \o ToString(Len(kids)))
            ELSE Ok([w2 EXCEPT !.tasks = @ \cup added])


create_child(w, data) ==
    LET w1 == ensure_today_initialized(w)
        kids == ChildrenInOrder(w1)
        requested_order == IF data.display_order = None THEN Len(kids)
                           ELSE data.display_order[1]
        new_child == [id |-> NewId(w1.children), name |-> data.name,
                      display_order |-> requested_order, color |-> None]
        shifted == {IF c.display_order >= requested_order
                    THEN [c EXCEPT !.display_order = @ + 1] ELSE c : c \in w1.children}
        w2 == [w1 EXCEPT !.children = shifted \cup {new_child}]
        template_items == TemplateItems(w2, TemplateTypeOf(w.today))
        added == Materialize(w2.tasks, LoopPairs(<<new_child>>, template_items),
                             today_str(w))
    IN IF Len(kids) >= MAX_CHILDREN
       THEN Fail(w1, "Maximum of " \o ToString(MAX_CHILDREN) \o " children allowed")
       ELSE IF requested_order < 0 \/ requested_order > Len(kids)
            THEN Fail(w1, "display_order must be between 0 and " \o ToString(Len(kids)))
            ELSE Ok([w2 EXCEPT !.tasks = @ \cup added])

\* list.insert(index, x) for 0 <= index <= len(list).
Insert(list, index, x) ==
    SubSeq(list, 1, index) \o << x >> \o SubSeq(list, index + 1, Len(list))

\* for index, item in enumerate(ordered): item.display_order = index
Enumerated(ordered) ==
    {[ordered[i] EXCEPT !.display_order = i - 1] : i \in 1 .. Len(ordered)}

\* The colours update_child stores: strings of seven characters that start
\* with "#". Of the request bodies the model sends, these.
IsHexColor(color_value) == color_value \in {"#FF5733"}

\* update_child with a pairwise swap in place of lines 193-196: the child
\* takes the requested place and the child that held it takes the one left.
update_child_swaps(w, child_id, data) ==
    LET found == Get(w.children, child_id)
        child == TheRow(w.children, child_id)
        kids == ChildrenInOrder(w)
        named == [child EXCEPT !.name = IF data.name # None THEN data.name[1] ELSE @]
        new_order == data.display_order[1]
        placed == IF data.display_order # None
                  THEN {IF c.id = child.id THEN [named EXCEPT !.display_order = new_order]
                        ELSE IF c.display_order = new_order
                             THEN [c EXCEPT !.display_order = child.display_order]
                             ELSE c : c \in w.children}
                  ELSE (w.children \ {child}) \cup {named}
    IN IF found = {} THEN Fail(w, "Child not found")
       ELSE IF data.display_order # None /\ (new_order < 0 \/ new_order >= Len(kids))
            THEN Fail(w, "display_order must be between 0 and " \o ToString(Len(kids) - 1))
            ELSE Ok([w EXCEPT !.children = placed])


\* The end of a request that returns without session.commit(): get_db closes
\* the session, and the database keeps what was stored; what the session held
\* pending is discarded.
close(stored, pending) == stored

\* update_child with the name committed as soon as it is set (line 187), ahead
\* of the test on display_order.
update_child_commits_name(w, child_id, data) ==
    LET found == Get(w.children, child_id)
        child == TheRow(w.children, child_id)
        kids == ChildrenInOrder(w)
        named == [child EXCEPT !.name = IF data.name # None THEN data.name[1] ELSE @]
        new_order == data.display_order[1]
        others == SelectSeq(kids, LAMBDA item : item.id # child.id)
        ordered == Insert(others, new_order, named)
        placed == IF data.display_order # None
                  THEN Enumerated(ordered)
                  ELSE (w.children \ {child}) \cup {named}
    IN IF found = {} THEN Fail(w, "Child not found")
       ELSE IF data.display_order # None /\ (new_order < 0 \/ new_order >= Len(kids))
            THEN Fail([w EXCEPT !.children = (@ \ {child}) \cup {named}],
                      "display_order must be between 0 and " \o ToString(Len(kids) - 1))
            ELSE Ok([w EXCEPT !.children = placed])

\* Lines 180-214. A rejected update returns before the commit with the name
\* already set on the loaded row (line 187): the session is closed with it.
update_child(w, child_id, data) ==
    LET found == Get(w.children, child_id)
        child == TheRow(w.children, child_id)
        kids == ChildrenInOrder(w)
        named == [child EXCEPT !.name = IF data.name # None THEN data.name[1] ELSE @]
        new_order == data.display_order[1]
        others == SelectSeq(kids, LAMBDA item : item.id # child.id)
        ordered == Insert(others, new_order, named)
        placed == IF data.display_order # None
                  THEN Enumerated(ordered)
                  ELSE (w.children \ {child}) \cup {named}
        Coloured(c) ==
            IF c.id # child.id \/ data.color = None THEN c
            ELSE IF IsHexColor(data.color[1]) THEN [c EXCEPT !.color = data.color]
            ELSE IF data.color[1] = "" THEN [c EXCEPT !.color = None]
            ELSE c
    IN IF found = {} THEN Fail(w, "Child not found")
       ELSE IF data.display_order # None /\ (new_order < 0 \/ new_order >= Len(kids))
            THEN Fail(close(w, [w EXCEPT !.children = (@ \ {child}) \cup {named}]),
                      "display_order must be between 0 and " \o ToString(Len(kids) - 1))
            ELSE Ok([w EXCEPT !.children = {Coloured(c) : c \in placed}])

\* Whether a select first flushes what the session has pending, so that the
\* select of line 230 no longer returns the child deleted on line 228: the
\* session factory of app/data/database.py.
autoflush == TRUE

\* delete_child with the test against MIN_CHILDREN (lines 222-224) left out.
delete_child_unbounded(w, child_id) ==
    LET found == Get(w.children, child_id)
        child == TheRow(w.children, child_id)
        remaining == OrderBy(w.children \ {child},
                             [c \in w.children \ {child} |-> c.display_order])
    IN IF found = {} THEN Fail(w, "Child not found")
       ELSE Ok([w EXCEPT !.tasks = {t \in @ : t.child_id # child_id},
                         !.templates = {t \in @ : t.child_id # Some(child_id)},
                         !.children = Enumerated(remaining)])

\* delete_child with the renumbering of the remaining children (lines 230-232)
\* left out.
delete_child_no_renumber(w, child_id) ==
    LET found == Get(w.children, child_id)
        child == TheRow(w.children, child_id)
    IN IF found = {} THEN Fail(w, "Child not found")
       ELSE IF Cardinality(w.children) <= MIN_CHILDREN
            THEN Fail(w, "At least one child must remain")
            ELSE Ok([w EXCEPT !.tasks = {t \in @ : t.child_id # child_id},
                              !.templates = {t \in @ : t.child_id # Some(child_id)},
                              !.children = @ \ {child}])

\* delete_child with the delete of the child's instances (line 226) left out.
delete_child_keeps_tasks(w, child_id) ==
    LET found == Get(w.children, child_id)
        child == TheRow(w.children, child_id)
        remaining == OrderBy(w.children \ {child},
                             [c \in w.children \ {child} |-> c.display_order])
    IN IF found = {} THEN Fail(w, "Child not found")
       ELSE IF Cardinality(w.children) <= MIN_CHILDREN
            THEN Fail(w, "At least one child must remain")
            ELSE Ok([w EXCEPT !.templates = {t \in @ : t.child_id # Some(child_id)},
                              !.children = Enumerated(remaining)])

delete_child(w, child_id) ==
    LET found == Get(w.children, child_id)
        child == TheRow(w.children, child_id)
        total_children == w.children
        \* the rows the select of line 230 returns
        selected == IF autoflush THEN w.children \ {child} ELSE w.children
        remaining == OrderBy(selected, [c \in selected |-> c.display_order])
    IN IF found = {} THEN Fail(w, "Child not found")
       ELSE IF Cardinality(total_children) <= MIN_CHILDREN
            THEN Fail(w, "At least one child must remain")
            ELSE Ok([w EXCEPT !.tasks = {t \in @ : t.child_id # child_id},
                              !.templates = {t \in @ : t.child_id # Some(child_id)},
                              !.children = {c \in Enumerated(remaining) : c.id # child_id}])

----------------------------------------------------------------------------
(* services.py: the task state machine *)

\* datetime.datetime.utcnow(): the n-th reading is represented by n, so a
\* later reading is a larger timestamp.
utcnow(w) == w.clock + 1
Tick(w) == [w EXCEPT !.clock = @ + 1]

\* The world with one row of tasks replaced.
WithTask(w, old, new) == [w EXCEPT !.tasks = (@ \ {old}) \cup {new}]

\* claim_task with the test for OPEN (line 732) left out: a PENDING task is
\* claimed again.
claim_task_restamps(w, child_id, task_id) ==
    LET found == Get(w.tasks, task_id)
        task == TheRow(w.tasks, task_id)
    IN IF found = {} \/ task.child_id # child_id THEN Fail(w, "Task not found")
       ELSE IF task.state = "APPROVED" THEN Fail(w, "Task already approved")
       ELSE Ok(WithTask(Tick(w), task,
                        [task EXCEPT !.state = "PENDING",
                                     !.claimed_at = Some(utcnow(w)),
                                     !.approved_at = None]))

\* claim_task with the test for APPROVED (lines 730-731) left out.
claim_task_unguarded(w, child_id, task_id) ==
    LET found == Get(w.tasks, task_id)
        task == TheRow(w.tasks, task_id)
    IN IF found = {} \/ task.child_id # child_id THEN Fail(w, "Task not found")
       ELSE IF task.state = "OPEN"
            THEN Ok(WithTask(Tick(w), task,
                             [task EXCEPT !.state = "PENDING",
                                          !.claimed_at = Some(utcnow(w)),
                                          !.approved_at = None]))
            ELSE Ok(w)

\* claim_task with the refusal of an APPROVED task (lines 730-731) left out and
\* an APPROVED task claimed like an OPEN one.
claim_task_from_approved(w, child_id, task_id) ==
    LET found == Get(w.tasks, task_id)
        task == TheRow(w.tasks, task_id)
    IN IF found = {} \/ task.child_id # child_id THEN Fail(w, "Task not found")
       ELSE IF task.state \in {"OPEN", "APPROVED"}
            THEN Ok(WithTask(Tick(w), task,
                             [task EXCEPT !.state = "PENDING",
                                          !.claimed_at = Some(utcnow(w)),
                                          !.approved_at = None]))
            ELSE Ok(w)


claim_task(w, child_id, task_id) ==
    LET found == Get(w.tasks, task_id)
        task == TheRow(w.tasks, task_id)
    IN IF found = {} \/ task.child_id # child_id THEN Fail(w, "Task not found")
       ELSE IF task.state = "APPROVED" THEN Fail(w, "Task already approved")
       ELSE IF task.state = "OPEN"
            THEN Ok(WithTask(Tick(w), task,
                             [task EXCEPT !.state = "PENDING",
                                          !.claimed_at = Some(utcnow(w)),
                                          !.approved_at = None]))
            ELSE Ok(w)

\* unclaim_task with the ownership test (line 742) reduced to existence.
unclaim_task_any_child(w, child_id, task_id) ==
    LET found == Get(w.tasks, task_id)
        task == TheRow(w.tasks, task_id)
    IN IF found = {} THEN Fail(w, "Task not found")
       ELSE IF task.state = "PENDING"
            THEN Ok(WithTask(w, task,
                             [task EXCEPT !.state = "OPEN",
                                          !.claimed_at = None,
                                          !.approved_at = None]))
            ELSE Ok(w)

\* unclaim_task with the test for PENDING (line 744) left out.
unclaim_task_any_state(w, child_id, task_id) ==
    LET found == Get(w.tasks, task_id)
        task == TheRow(w.tasks, task_id)
    IN IF found = {} \/ task.child_id # child_id THEN Fail(w, "Task not found")
       ELSE Ok(WithTask(w, task,
                        [task EXCEPT !.state = "OPEN",
                                     !.claimed_at = None,
                                     !.approved_at = None]))

unclaim_task(w, child_id, task_id) ==
    LET found == Get(w.tasks, task_id)
        task == TheRow(w.tasks, task_id)
    IN IF found = {} \/ task.child_id # child_id THEN Fail(w, "Task not found")
       ELSE IF task.state = "PENDING"
            THEN Ok(WithTask(w, task,
                             [task EXCEPT !.state = "OPEN",
                                          !.claimed_at = None,
                                          !.approved_at = None]))
            ELSE Ok(w)

\* approve_task with the test of claimed_at (line 757) left out: the claim time
\* is always stamped.
approve_task_restamps(w, task_id) ==
    LET found == Get(w.tasks, task_id)
        task == TheRow(w.tasks, task_id)
        w1 == Tick(w)
    IN IF found = {} THEN Fail(w, "Task not found")
       ELSE Ok(WithTask(Tick(w1), task,
                        [task EXCEPT !.state = "APPROVED",
                                     !.claimed_at = Some(utcnow(w)),
                                     !.approved_at = Some(utcnow(w1))]))

approve_task(w, task_id) ==
    LET found == Get(w.tasks, task_id)
        task == TheRow(w.tasks, task_id)
        \* utcnow() is read for claimed_at only when it was never set
        w1 == IF task.claimed_at = None THEN Tick(w) ELSE w
        claimed == IF task.claimed_at = None THEN Some(utcnow(w)) ELSE task.claimed_at
    IN IF found = {} THEN Fail(w, "Task not found")
       ELSE Ok(WithTask(Tick(w1), task,
                        [task EXCEPT !.state = "APPROVED",
                                     !.claimed_at = claimed,
                                     !.approved_at = Some(utcnow(w1))]))

\* reject_task writing the state its name suggests.
reject_task_rejected(w, task_id) ==
    LET found == Get(w.tasks, task_id)
        task == TheRow(w.tasks, task_id)
    IN IF found = {} THEN Fail(w, "Task not found")
       ELSE Ok(WithTask(w, task,
                        [task EXCEPT !.state = "REJECTED",
                                     !.claimed_at = None,
                                     !.approved_at = None]))

reject_task(w, task_id) ==
    LET found == Get(w.tasks, task_id)
        task == TheRow(w.tasks, task_id)
    IN IF found = {} THEN Fail(w, "Task not found")
       ELSE Ok(WithTask(w, task,
                        [task EXCEPT !.state = "OPEN",
                                     !.claimed_at = None,
                                     !.approved_at = None]))

\* revoke_task with the clearing of approved_at (line 781) left out.
revoke_task_keeps_approval(w, task_id) ==
    LET found == Get(w.tasks, task_id)
        task == TheRow(w.tasks, task_id)
    IN IF found = {} THEN Fail(w, "Task not found")
       ELSE Ok(WithTask(w, task,
                        [task EXCEPT !.state = "OPEN",
                                     !.claimed_at = None]))

\* revoke_task with the clearing of claimed_at (line 780) left out.
revoke_task_keeps_claim(w, task_id) ==
    LET found == Get(w.tasks, task_id)
        task == TheRow(w.tasks, task_id)
    IN IF found = {} THEN Fail(w, "Task not found")
       ELSE Ok(WithTask(w, task,
                        [task EXCEPT !.state = "OPEN",
                                     !.approved_at = None]))

revoke_task(w, task_id) ==
    LET found == Get(w.tasks, task_id)
        task == TheRow(w.tasks, task_id)
    IN IF found = {} THEN Fail(w, "Task not found")
       ELSE Ok(WithTask(w, task,
                        [task EXCEPT !.state = "OPEN",
                                     !.claimed_at = None,
                                     !.approved_at = None]))

----------------------------------------------------------------------------
(* services.py: templates *)

create_template_task(w, data) ==
    LET item == [id |-> NewId(w.templates), template_type |-> data.template_type,
                 category |-> data.category, title |-> data.title,
                 required |-> data.required, reward_text |-> data.reward_text,
                 sort_order |-> data.sort_order, child_id |-> data.child_id]
    IN [w EXCEPT !.templates = @ \cup {item}]

\* if field in data and data[field] is not None: setattr(row, field, data[field])
\* A column that holds an Optional keeps the Optional.
Patched(old, new) == IF new = None THEN old ELSE new[1]

\* setattr(row, field, data.get(field)) without the test for None.
Assigned(old, new) ==
    new

PatchedOptional(old, new) ==
    IF new = None THEN old ELSE new

\* update_template_task also rewriting today's instances of the template.
update_template_task_retroactive(w, task_id, data) ==
    LET found == Get(w.templates, task_id)
        item == TheRow(w.templates, task_id)
        new == [item EXCEPT
                  !.template_type = Patched(@, data.template_type),
                  !.category = Patched(@, data.category),
                  !.title = Patched(@, data.title),
                  !.required = Patched(@, data.required),
                  !.reward_text = PatchedOptional(@, data.reward_text),
                  !.sort_order = Patched(@, data.sort_order),
                  !.child_id = PatchedOptional(@, data.child_id)]
    IN IF found = {} THEN Fail(w, "Task not found")
       ELSE Ok([w EXCEPT !.templates = (@ \ {item}) \cup {new},
                         !.tasks = {IF t.date = w.today /\ t.title = item.title
                                    THEN [t EXCEPT !.title = new.title,
                                                   !.required = new.required]
                                    ELSE t : t \in @}])

update_template_task(w, task_id, data) ==
    LET found == Get(w.templates, task_id)
        item == TheRow(w.templates, task_id)
        new == [item EXCEPT
                  !.template_type = Patched(@, data.template_type),
                  !.category = Patched(@, data.category),
                  !.title = Patched(@, data.title),
                  !.required = Patched(@, data.required),
                  !.reward_text = PatchedOptional(@, data.reward_text),
                  !.sort_order = Patched(@, data.sort_order),
                  !.child_id = PatchedOptional(@, data.child_id)]
    IN IF found = {} THEN Fail(w, "Task not found")
       ELSE Ok([w EXCEPT !.templates = (@ \ {item}) \cup {new}])

delete_template_task(w, task_id) ==
    LET found == Get(w.templates, task_id)
        item == TheRow(w.templates, task_id)
    IN IF found = {} THEN Fail(w, "Task not found")
       ELSE Ok([w EXCEPT !.templates = @ \ {item}])

----------------------------------------------------------------------------
(* services.py: today's one-off tasks *)

\* The instances create_today_task adds for the children it loops over, each
\* flushed as it is added.
TodayInstances(rows, kids, date, data) ==
    LET base == NewId(rows)
    IN {[id |-> base + i - 1, date |-> date, child_id |-> kids[i].id,
         category |-> data.category, title |-> data.title,
         required |-> data.required, reward_text |-> data.reward_text,
         sort_order |-> data.sort_order,
         state |-> "OPEN", claimed_at |-> None, approved_at |-> None]
        : i \in 1 .. Len(kids)}

\* `if child_id` is false for None and for 0; session.get gives None for an id
\* that is not in the table, and the loop skips it.
create_today_task(w, data) ==
    LET child_id == data.child_id
        kids == IF child_id # None /\ child_id # Some(0)
                THEN IF Get(w.children, child_id[1]) = {} THEN << >>
                     ELSE << TheRow(w.children, child_id[1]) >>
                ELSE ChildrenInOrder(w)
        added == TodayInstances(w.tasks, kids, today_str(w), data)
    IN [w |-> [w EXCEPT !.tasks = @ \cup added], ids |-> {t.id : t \in added}]

update_today_task(w, task_id, data) ==
    LET found == Get(w.tasks, task_id)
        task == TheRow(w.tasks, task_id)
    IN IF found = {} THEN Fail(w, "Task not found")
       ELSE Ok(WithTask(w, task,
                        [task EXCEPT
                           !.category = Patched(@, data.category),
                           !.title = Patched(@, data.title),
                           !.required = Patched(@, data.required),
                           !.reward_text = PatchedOptional(@, data.reward_text),
                           !.sort_order = Patched(@, data.sort_order)]))

delete_today_task(w, task_id) ==
    LET found == Get(w.tasks, task_id)
        task == TheRow(w.tasks, task_id)
    IN IF found = {} THEN Fail(w, "Task not found")
       ELSE Ok([w EXCEPT !.tasks = @ \ {task}])

----------------------------------------------------------------------------
(* home_rewards_kiosk: the wallet variant, an application with a database of *)
(* its own. A handler is an operator on the kiosk's world k: the date, the   *)
(* count of utcnow() readings and the kiosk's tables.                         *)

DEFAULT_CHILDREN ==
    << [name |-> "Alex", avatar_color |-> "#4F46E5"],
       [name |-> "Jordan", avatar_color |-> "#EC4899"],
       [name |-> "Riley", avatar_color |-> "#22C55E"] >>
DEFAULT_CATEGORIES == <<"Schoolwork", "Hygiene", "Family Help">>
DEFAULT_EXCHANGE_RATE_CENTS == 25
DEFAULT_PARENT_PIN == "1234"

\* The tables after main.py startup() on a new database: the settings row,
\* the default children, a wallet and the starter goals for each. The model
\* keeps the first SeedRows categories. The stored salt and hash of the PIN
\* are represented by the PIN they verify.
startup ==
    LET nc == Min2(SeedRows, Len(DEFAULT_CATEGORIES))
        nk == Len(DEFAULT_CHILDREN)
    IN [children |-> {[id |-> i, name |-> DEFAULT_CHILDREN[i].name,
                       avatar_color |-> DEFAULT_CHILDREN[i].avatar_color] : i \in 1 .. nk},
        wallets |-> {[id |-> i, child_id |-> i, minutes_balance |-> 0,
                      money_balance_cents |-> 0] : i \in 1 .. nk},
        goals |-> {[id |-> (i - 1) * nc + j, child_id |-> Some(i),
                    category |-> DEFAULT_CATEGORIES[j],
                    title |-> DEFAULT_CATEGORIES[j] \o " starter",
                    reward_minutes |-> 10, repeat_rule |-> "daily",
                    proof_required |-> FALSE, auto_approve |-> FALSE]
                   : i \in 1 .. nk, j \in 1 .. nc},
        goal_instances |-> {},
        transactions |-> {},
        settings |-> {[id |-> 1, pin |-> DEFAULT_PARENT_PIN, daily_minute_cap |-> 120,
                       exchange_rate_cents |-> DEFAULT_EXCHANGE_RATE_CENTS]}]

\* security/pin.py verify_pin: the hash of pin under the stored salt is the
\* stored hash.
verify_pin(pin, stored) == pin = stored

\* The world with one row of wallets replaced or added.
upsert_wallet(k, old, new) == [k EXCEPT !.wallets = (@ \ old) \cup {new}]

\* wallet_service.get_or_create_wallet: the world after it and the row it
\* returns.
get_or_create_wallet(k, child_id) ==
    LET found == {x \in k.wallets : x.child_id = child_id}
        wallet == [id |-> NewId(k.wallets), child_id |-> child_id,
                   minutes_balance |-> 0, money_balance_cents |-> 0]
    IN IF found # {} THEN [k |-> k, wallet |-> CHOOSE x \in found : TRUE]
       ELSE [k |-> upsert_wallet(k, {}, wallet), wallet |-> wallet]

add_minutes(k, child_id, minutes) ==
    LET got == get_or_create_wallet(k, child_id)
    IN upsert_wallet(got.k, {got.wallet},
                     [got.wallet EXCEPT !.minutes_balance = @ + minutes])

\* spend_minutes without the max(..., 0) of line 23.
spend_minutes_unclamped(k, child_id, minutes) ==
    LET got == get_or_create_wallet(k, child_id)
    IN upsert_wallet(got.k, {got.wallet},
                     [got.wallet EXCEPT !.minutes_balance = @ - minutes])


spend_minutes(k, child_id, minutes) ==
    LET got == get_or_create_wallet(k, child_id)
        left == got.wallet.minutes_balance - minutes
    IN upsert_wallet(got.k, {got.wallet},
                     [got.wallet EXCEPT !.minutes_balance = IF left > 0 THEN left ELSE 0])

add_money(k, child_id, cents) ==
    LET got == get_or_create_wallet(k, child_id)
    IN upsert_wallet(got.k, {got.wallet},
                     [got.wallet EXCEPT !.money_balance_cents = @ + cents])

\* cashout_service.request_cashout; the row's created_at defaults to utcnow().
request_cashout(k, child_id, minutes) ==
    LET rate == (CHOOSE st \in k.settings : TRUE).exchange_rate_cents
        cents == minutes * rate
        k1 == spend_minutes(k, child_id, minutes)
        k2 == add_money(k1, child_id, cents)
        transaction == [id |-> NewId(k2.transactions), child_id |-> child_id,
                        type |-> "cashout", minutes_delta |-> 0 - minutes,
                        cents_delta |-> cents, status |-> "pending",
                        created_at |-> utcnow(k2)]
    IN IF k.settings = {} THEN Fail(k, "Settings not initialized")
       ELSE Ok([Tick(k2) EXCEPT !.transactions = @ \cup {transaction}])

\* goal_service.claim_goal: the world after it and the instance it returns.
claim_goal(k, goal, child_id) ==
    LET existing == {i \in k.goal_instances :
                        i.goal_id = goal.id /\ i.child_id = child_id /\ i.date = k.today}
        old == CHOOSE i \in existing : TRUE
        base == IF existing # {} THEN old
                ELSE [id |-> NewId(k.goal_instances), goal_id |-> goal.id,
                      child_id |-> child_id, date |-> k.today, status |-> "open",
                      claimed_at |-> None, approved_at |-> None]
        k1 == Tick(k)
        pending == [base EXCEPT !.status = "pending", !.claimed_at = Some(utcnow(k))]
        approved == [pending EXCEPT !.status = "approved", !.approved_at = Some(utcnow(k1))]
    IN IF existing # {} /\ old.status = "approved" THEN [k |-> k, instance |-> old]
       ELSE IF goal.auto_approve
            THEN [k |-> [Tick(k1) EXCEPT !.goal_instances = (@ \ existing) \cup {approved}],
                  instance |-> approved]
            ELSE [k |-> [k1 EXCEPT !.goal_instances = (@ \ existing) \cup {pending}],
                  instance |-> pending]

\* api/routes/child.py claim_goal: POST /child/{child_id}/claim
claim(k, child_id, goal_id) ==
    LET found == Get(k.goals, goal_id)
        goal == TheRow(k.goals, goal_id)
        claimed == claim_goal(k, goal, child_id)
    IN IF found = {} THEN Fail(k, "Goal not found")
       ELSE IF claimed.instance.status = "approved"
            THEN Ok(add_minutes(claimed.k, child_id, goal.reward_minutes))
            ELSE Ok(claimed.k)

\* approval_service.approve_instance
approve_instance(k, instance, approve) ==
    LET new == [instance EXCEPT !.status = IF approve THEN "approved" ELSE "open",
                                !.approved_at = IF approve THEN Some(utcnow(k)) ELSE None]
        k1 == IF approve THEN Tick(k) ELSE k
    IN [k1 EXCEPT !.goal_instances = (@ \ {instance}) \cup {new}]

\* api/routes/parent.py approve: POST /parent/approve
approve(k, instance_id, approved, pin) ==
    LET st == CHOOSE x \in k.settings : TRUE
        found == Get(k.goal_instances, instance_id)
        instance == TheRow(k.goal_instances, instance_id)
        updated == approve_instance(k, instance, approved)
        goal == Get(k.goals, instance.goal_id)
    IN IF k.settings = {} THEN Fail(k, "Settings not initialized")
       ELSE IF ~verify_pin(pin, st.pin) THEN Fail(k, "Invalid PIN")
       ELSE IF found = {} THEN Fail(k, "Instance not found")
       ELSE IF approved /\ goal # {}
            THEN Ok(add_minutes(updated, instance.child_id,
                                TheRow(k.goals, instance.goal_id).reward_minutes))
            ELSE Ok(updated)

----------------------------------------------------------------------------
(* The state machine. *)

\* settings_id is the primary key of the row get_settings returned to the request.
Idle == [pc |-> "idle", settings_id |-> 0, current_date |-> None, template_type |-> "-"]

Init ==
    /\ today = FirstDay
    /\ clock = 0
    /\ children = {}
    /\ templates = {}
    /\ tasks = {}
    /\ settings = {}
    /\ reqs = [r \in Requests |-> Idle]
    /\ kiosk = startup
    /\ last = [op |-> "start", case |-> "-", err |-> None]

\* Commit the world a handler left, within the bound on the clock.
Commit(w) ==
    /\ w.clock <= MaxClock
    /\ today' = w.today
    /\ clock' = w.clock
    /\ children' = w.children
    /\ templates' = w.templates
    /\ tasks' = w.tasks
    /\ settings' = w.settings
    /\ UNCHANGED kiosk

Ran(op, case, err) == last' = [op |-> op, case |-> case, err |-> err]

\* Whether the rollover gate is closed (today's rollover has been done).
GateCase(w) ==
    IF \E s \in w.settings : s.last_reset_date = Some(w.today) THEN "same_day" ELSE "new_day"

\* Midnight.
NextDay ==
    /\ today < LastDay
    /\ today' = today + 1
    /\ Ran("midnight", "-", None)
    /\ UNCHANGED <<clock, children, templates, tasks, settings, reqs, kiosk>>

\* GET /api/state: the rollover is committed (line 653) before the snapshot is
\* put together, so a request that raises there has still rolled the day over.
BuildState ==
    /\ Commit(build_state(World))
    /\ Ran("build_state", GateCase(World),
           IF build_state_raises(World) THEN Some("KeyError") ELSE None)
    /\ UNCHANGED reqs

\* Request inputs: every id in use and one that is not.
ChildIdInputs == {c.id : c \in children} \cup {NewId(children)}
TaskIdInputs == {t.id : t \in tasks} \cup {NewId(tasks)}

\* POST /api/parent/templates/tasks bodies.
TemplateInputs ==
    [template_type : {"WEEKDAY", "WEEKEND"}, category : {"HELPFUL"}, title : {"Dishes"},
     required : {FALSE}, reward_text : {Some("$2")}, sort_order : {0},
     child_id : {Some(2)}]

\* The case a task request meets: the state of the row it names, "missing" when
\* there is none, "foreign" when a child names another child's row.
TaskCase(task_id) ==
    IF Get(tasks, task_id) = {} THEN "missing" ELSE TheRow(tasks, task_id).state

ChildTaskCase(child_id, task_id) ==
    IF Get(tasks, task_id) = {} THEN "missing"
    ELSE IF TheRow(tasks, task_id).child_id # child_id THEN "foreign"
    ELSE TheRow(tasks, task_id).state

\* POST /api/child/{child_id}/tasks/{task_id}/claim
ClaimTask(child_id, task_id) ==
    LET res == claim_task(World, child_id, task_id)
    IN /\ Commit(res.w)
       /\ Ran("claim_task", ChildTaskCase(child_id, task_id), res.err)
       /\ UNCHANGED reqs

\* POST /api/child/{child_id}/tasks/{task_id}/unclaim
UnclaimTask(child_id, task_id) ==
    LET res == unclaim_task(World, child_id, task_id)
    IN /\ Commit(res.w)
       /\ Ran("unclaim_task", ChildTaskCase(child_id, task_id), res.err)
       /\ UNCHANGED reqs

\* POST /api/parent/tasks/{task_id}/approve
ApproveTask(task_id) ==
    LET res == approve_task(World, task_id)
    IN /\ Commit(res.w)
       /\ Ran("approve_task", TaskCase(task_id), res.err)
       /\ UNCHANGED reqs

\* POST /api/parent/tasks/{task_id}/reject
RejectTask(task_id) ==
    LET res == reject_task(World, task_id)
    IN /\ Commit(res.w)
       /\ Ran("reject_task", TaskCase(task_id), res.err)
       /\ UNCHANGED reqs

\* POST /api/parent/tasks/{task_id}/revoke
RevokeTask(task_id) ==
    LET res == revoke_task(World, task_id)
    IN /\ Commit(res.w)
       /\ Ran("revoke_task", TaskCase(task_id), res.err)
       /\ UNCHANGED reqs

\* POST /api/parent/templates/tasks
CreateTemplateTask(data) ==
    /\ Cardinality(templates) < MaxTemplates
    /\ NewId(templates) <= MaxTemplates
    /\ Commit(create_template_task(World, data))
    /\ Ran("create_template_task", "-", None)
    /\ UNCHANGED reqs

\* POST /api/parent/children bodies (ChildCreate).
ChildInputs == [name : {"Child 4"}, display_order : {None, Some(9)}]

\* POST /api/parent/children
CreateChild(data) ==
    LET res == create_child(World, data)
    IN /\ Commit(res.w)
       /\ Ran("create_child", GateCase(World), res.err)
       /\ UNCHANGED reqs

\* A request running ensure_today_initialized beside others, lines 617-623:
\* seed_data and get_settings commit, then the gate is read.
EnsureBegin(r) ==
    LET got == get_settings(seed_data(World))
        current_date == today_str(World)
        closed == got.row.last_reset_date = Some(current_date)
    IN /\ reqs[r].pc = "idle"
       /\ Commit(got.w)
       /\ reqs' = [reqs EXCEPT ![r] =
                     IF closed THEN Idle
                     ELSE [pc |-> "rollover", settings_id |-> got.row.id,
                           current_date |-> Some(current_date),
                           template_type |-> TemplateTypeOf(today)]]
       /\ Ran("ensure_begin", IF closed THEN "same_day" ELSE "new_day", None)

\* The same request, lines 624-653: the selects, the inserts, the write of
\* last_reset_date and the commit.
EnsureCommit(r) ==
    /\ reqs[r].pc = "rollover"
    /\ Commit(RolloverBody(World, reqs[r].settings_id,
                           reqs[r].current_date[1], reqs[r].template_type))
    /\ reqs' = [reqs EXCEPT ![r] = Idle]
    /\ Ran("ensure_commit", "-", None)

\* POST /api/parent/children bodies that also name a place in the order.
RosterChildInputs == [name : {"Child 4"}, display_order : {None, Some(0), Some(9)}]

\* PUT /api/parent/children/{child_id} bodies (ChildUpdate).
ChildUpdateInputs ==
    {[name |-> None, display_order |-> Some(0), color |-> None],
     [name |-> Some("Child 4"), display_order |-> Some(1), color |-> None],
     [name |-> Some("Child 4"), display_order |-> Some(9), color |-> None]}

\* The case a roster request meets: no such child, the only child, the child
\* that is first in the order, or another.
RosterCase(child_id) ==
    IF Get(children, child_id) = {} THEN "missing"
    ELSE IF Cardinality(children) <= MIN_CHILDREN THEN "sole"
    ELSE IF TheRow(children, child_id).display_order = 0 THEN "first"
    ELSE "other"

\* POST /api/parent/children, while the table's ids stay within the bound.
CreateChildAt(data) ==
    LET res == create_child(World, data)
    IN /\ \A c \in res.w.children : c.id <= MaxChildId
       /\ Commit(res.w)
       /\ Ran("create_child", GateCase(World), res.err)
       /\ UNCHANGED reqs

\* PUT /api/parent/children/{child_id}
UpdateChild(child_id, data) ==
    LET res == update_child(World, child_id, data)
    IN /\ Commit(res.w)
       /\ Ran("update_child", RosterCase(child_id), res.err)
       /\ UNCHANGED reqs

\* DELETE /api/parent/children/{child_id}
DeleteChild(child_id) ==
    LET res == delete_child(World, child_id)
    IN /\ Commit(res.w)
       /\ Ran("delete_child", RosterCase(child_id), res.err)
       /\ UNCHANGED reqs

\* POST /api/parent/today/tasks bodies (TaskCreate).
TodayTaskInputs ==
    [child_id : {None, Some(0), Some(2), Some(9)}, category : {"HELPFUL"},
     title : {"Extra"}, required : {TRUE}, reward_text : {None}, sort_order : {5}]

\* POST /api/parent/today/tasks
CreateTodayTask(data) ==
    LET res == create_today_task(World, data)
    IN /\ Cardinality({t \in tasks : t.date = today /\ t.title = data.title})
            < MaxTodayTasks
       /\ Commit(res.w)
       /\ Ran("create_today_task",
              IF data.child_id \in {None, Some(0)} THEN "all"
              ELSE IF Get(children, data.child_id[1]) = {} THEN "missing" ELSE "one",
              None)
       /\ UNCHANGED reqs

TemplateIdInputs == {t.id : t \in templates} \cup {NewId(templates)}

\* PUT /api/parent/templates/tasks/{task_id} bodies: what an instance copies
\* is rewritten.
TemplateUpdateInputs ==
    {[template_type |-> None, category |-> None, title |-> Some("Chores"),
      required |-> Some(FALSE), reward_text |-> None, sort_order |-> None,
      child_id |-> None]}

TemplateCase(task_id) == IF Get(templates, task_id) = {} THEN "missing" ELSE "found"

\* PUT /api/parent/templates/tasks/{task_id}
UpdateTemplateTask(task_id, data) ==
    LET res == update_template_task(World, task_id, data)
    IN /\ Commit(res.w)
       /\ Ran("update_template_task", TemplateCase(task_id), res.err)
       /\ UNCHANGED reqs

\* DELETE /api/parent/templates/tasks/{task_id}
DeleteTemplateTask(task_id) ==
    LET res == delete_template_task(World, task_id)
    IN /\ Commit(res.w)
       /\ Ran("delete_template_task", TemplateCase(task_id), res.err)
       /\ UNCHANGED reqs

\* A server process starting (main.py on_startup) or a request, running
\* ensure_today_initialized beside others, lines 617-618 and 34-35: seed_data
\* commits, then get_settings selects the settings rows. With one row the
\* gate is read as in EnsureBegin; with none the process goes on to insert
\* one; with more, scalar_one_or_none raises MultipleResultsFound.
StartSelect(r) ==
    LET w1 == seed_data(World)
        current_date == today_str(World)
        row == CHOOSE s \in settings : TRUE
        closed == row.last_reset_date = Some(current_date)
    IN /\ reqs[r].pc = "idle"
       /\ Commit(w1)
       /\ reqs' = [reqs EXCEPT ![r] =
                     IF settings = {} THEN [Idle EXCEPT !.pc = "insert"]
                     ELSE IF Cardinality(settings) > 1 \/ closed THEN Idle
                     ELSE [pc |-> "rollover", settings_id |-> row.id,
                           current_date |-> Some(current_date),
                           template_type |-> TemplateTypeOf(today)]]
       /\ Ran("get_settings",
              IF settings = {} THEN "none"
              ELSE IF Cardinality(settings) > 1 THEN "many"
              ELSE IF closed THEN "same_day" ELSE "new_day",
              IF Cardinality(settings) > 1 THEN Some("MultipleResultsFound") ELSE None)

\* The same process, lines 35-42 and 619-623: it found no row, so it adds one,
\* commits, and reads the gate on the row it added.
StartInsert(r) ==
    LET row == [DefaultSettings EXCEPT !.id = NewId(settings)]
        current_date == today_str(World)
    IN /\ reqs[r].pc = "insert"
       /\ Commit([World EXCEPT !.settings = @ \cup {row}])
       /\ reqs' = [reqs EXCEPT ![r] =
                     [pc |-> "rollover", settings_id |-> row.id,
                      current_date |-> Some(current_date),
                      template_type |-> TemplateTypeOf(today)]]
       /\ Ran("get_settings", "inserted", None)

\* PUT /api/parent/today/tasks/{task_id} bodies (TaskUpdate).
TodayUpdateInputs ==
    {[category |-> None, title |-> Some("Renamed"), required |-> Some(FALSE),
      reward_text |-> None, sort_order |-> None]}

\* The case a request that names an instance meets, by the instance's date.
DateCase(task_id) ==
    IF Get(tasks, task_id) = {} THEN "missing"
    ELSE IF TheRow(tasks, task_id).date = today THEN "today" ELSE "past"

\* PUT /api/parent/today/tasks/{task_id}
UpdateTodayTask(task_id, data) ==
    LET res == update_today_task(World, task_id, data)
    IN /\ Commit(res.w)
       /\ Ran("update_today_task", DateCase(task_id), res.err)
       /\ UNCHANGED reqs

\* DELETE /api/parent/today/tasks/{task_id}
DeleteTodayTask(task_id) ==
    LET res == delete_today_task(World, task_id)
    IN /\ Commit(res.w)
       /\ Ran("delete_today_task", DateCase(task_id), res.err)
       /\ UNCHANGED reqs

TaskStep ==
    \/ \E c \in ChildIdInputs, t \in TaskIdInputs : ClaimTask(c, t)
    \/ \E c \in ChildIdInputs, t \in TaskIdInputs : UnclaimTask(c, t)
    \/ \E t \in TaskIdInputs : ApproveTask(t)
    \/ \E t \in TaskIdInputs : RejectTask(t)
    \/ \E t \in TaskIdInputs : RevokeTask(t)

\* The daily engine: the calendar, the rollover on every state read and
\* roster change, the templates it reads, and the parent's approvals.
Next ==
    \/ NextDay
    \/ BuildState
    \/ \E data \in TemplateInputs : CreateTemplateTask(data)
    \/ \E data \in ChildInputs : CreateChild(data)
    \/ \E t \in TaskIdInputs : ApproveTask(t)

Spec == Init /\ [][Next]_vars

\* The task state machine on one day's instances.
NextTasks ==
    \/ BuildState
    \/ TaskStep

SpecTasks == Init /\ [][NextTasks]_vars

\* Requests that run the rollover beside each other.
NextRace ==
    \/ NextDay
    \/ \E r \in Requests : EnsureBegin(r)
    \/ \E r \in Requests : EnsureCommit(r)
    \/ \E c \in ChildIdInputs, t \in TaskIdInputs : ClaimTask(c, t)

SpecRace == Init /\ [][NextRace]_vars

\* The roster: children are added, moved, renamed and removed.
NextRoster ==
    \/ BuildState
    \/ \E data \in RosterChildInputs : CreateChildAt(data)
    \/ \E c \in ChildIdInputs, data \in ChildUpdateInputs : UpdateChild(c, data)
    \/ \E c \in ChildIdInputs : DeleteChild(c)

SpecRoster == Init /\ [][NextRoster]_vars

\* What hangs on a child: the day's instances, one-off tasks, templates scoped
\* to it and approvals, while children are removed.
NextCascade ==
    \/ BuildState
    \/ \E c \in ChildIdInputs : DeleteChild(c)
    \/ \E data \in TemplateInputs : CreateTemplateTask(data)
    \/ \E data \in TodayTaskInputs : CreateTodayTask(data)
    \/ \E t \in TaskIdInputs : ApproveTask(t)

SpecCascade == Init /\ [][NextCascade]_vars

\* The task state machine on a day that also gets a one-off task: each child
\* acts on its own instances, the parent on any.
NextToday ==
    \/ BuildState
    \/ \E data \in {d \in TodayTaskInputs : d.child_id = Some(2)} : CreateTodayTask(data)
    \/ \E t \in tasks : ClaimTask(t.child_id, t.id)
    \/ \E t \in tasks : UnclaimTask(t.child_id, t.id)
    \/ \E t \in tasks : ApproveTask(t.id)
    \/ \E t \in tasks : RejectTask(t.id)
    \/ \E t \in tasks : RevokeTask(t.id)

SpecToday == Init /\ [][NextToday]_vars

\* The templates are edited on a day whose rollover may have run.
NextTemplates ==
    \/ BuildState
    \/ \E data \in TemplateInputs : CreateTemplateTask(data)
    \/ \E id \in TemplateIdInputs, data \in TemplateUpdateInputs : UpdateTemplateTask(id, data)
    \/ \E id \in TemplateIdInputs : DeleteTemplateTask(id)

SpecTemplates == Init /\ [][NextTemplates]_vars

\* Server processes that start, and requests that arrive, beside each other
\* on a database that may still be empty.
NextBoot ==
    \/ NextDay
    \/ \E r \in Requests : StartSelect(r)
    \/ \E r \in Requests : StartInsert(r)
    \/ \E r \in Requests : EnsureCommit(r)

SpecBoot == Init /\ [][NextBoot]_vars

\* The ids of the first child's instances of earlier days, and one id that is
\* not in use.
PastTaskIdInputs ==
    {t.id : t \in {u \in tasks : u.date < today /\ u.child_id = 1}} \cup {NewId(tasks)}

\* Requests that name an instance of an earlier day, or a child that has
\* some, while the days pass.
NextPast ==
    \/ NextDay
    \/ BuildState
    \/ \E t \in PastTaskIdInputs : ApproveTask(t)
    \/ \E t \in PastTaskIdInputs, data \in TodayUpdateInputs : UpdateTodayTask(t, data)
    \/ \E t \in PastTaskIdInputs : DeleteTodayTask(t)
    \/ \E c \in {2, NewId(children)} : DeleteChild(c)

SpecPast == Init /\ [][NextPast]_vars

\* POST /api/parent/today/tasks bodies that give the first child one more
\* required task.
RequiredTaskInputs ==
    [child_id : {Some(1)}, category : {"HYGIENE"}, title : {"Extra"},
     required : {TRUE}, reward_text : {None}, sort_order : {5}]

\* POST /api/parent/today/tasks, while the child holds fewer than MaxRequired
\* required instances today.
CreateRequiredTask(data) ==
    LET res == create_today_task(World, data)
    IN /\ Cardinality({t \in tasks : /\ t.date = today
                                     /\ Some(t.child_id) = data.child_id
                                     /\ t.required}) < MaxRequired
       /\ tasks' = res.w.tasks
       /\ Ran("create_today_task",
              IF Get(children, data.child_id[1]) = {} THEN "missing" ELSE "one", None)
       /\ UNCHANGED <<today, clock, children, templates, settings, reqs, kiosk>>

\* POST /api/parent/tasks/{task_id}/approve for the first child's OPEN
\* instance of today with the lowest id. The day's instances bound the
\* readings of utcnow().
ApproveNext ==
    LET open == {t \in tasks : t.date = today /\ t.child_id = 1 /\ t.state = "OPEN"}
        task == CHOOSE t \in open : \A u \in open : t.id <= u.id
        res == approve_task(World, task.id)
    IN /\ open # {}
       /\ tasks' = res.w.tasks
       /\ clock' = res.w.clock
       /\ Ran("approve_task", "OPEN", res.err)
       /\ UNCHANGED <<today, children, templates, settings, reqs, kiosk>>

\* One child's day: required tasks are added and approved one after another.
NextPercent ==
    \/ BuildState
    \/ \E data \in RequiredTaskInputs : CreateRequiredTask(data)
    \/ ApproveNext

SpecPercent == Init /\ [][NextPercent]_vars

\* PUT /api/parent/children/{child_id} bodies that rename the child.
RenameInputs == {[name |-> Some("Child 4"), display_order |-> None, color |-> None]}

\* The roster is changed while the days pass: a request may be the first of
\* its day.
NextTrigger ==
    \/ NextDay
    \/ BuildState
    \/ \E data \in ChildInputs : CreateChildAt(data)
    \/ \E c \in {1, NewId(children)}, data \in RenameInputs : UpdateChild(c, data)
    \/ \E c \in ChildIdInputs : DeleteChild(c)

SpecTrigger == Init /\ [][NextTrigger]_vars

\* The world a handler of the kiosk runs in.
KioskWorld ==
    [today |-> today, clock |-> clock, children |-> kiosk.children,
     goals |-> kiosk.goals, goal_instances |-> kiosk.goal_instances,
     wallets |-> kiosk.wallets, transactions |-> kiosk.transactions,
     settings |-> kiosk.settings]

\* Commit the world a handler of the kiosk left, within the bounds on the
\* clock and on the balances.
KioskCommit(k) ==
    /\ k.clock <= MaxClock
    /\ \A x \in k.wallets : x.minutes_balance <= MaxMinutes
    /\ clock' = k.clock
    /\ kiosk' = [children |-> k.children, goals |-> k.goals,
                 goal_instances |-> k.goal_instances, wallets |-> k.wallets,
                 transactions |-> k.transactions, settings |-> k.settings]
    /\ UNCHANGED <<today, children, templates, tasks, settings, reqs>>

\* Request inputs of the kiosk: the first child acts, on its goals and on an id
\* that is not in use; amounts of minutes.
KioskChildInputs == {1}
GoalIdInputs == {g.id : g \in {x \in kiosk.goals : x.child_id = Some(1)}} \cup {NewId(kiosk.goals)}
InstanceIdInputs == {i.id : i \in kiosk.goal_instances} \cup {NewId(kiosk.goal_instances)}
MinutesInputs == {4, 15}
PinInputs == {DEFAULT_PARENT_PIN, "0000"}

\* The case a request on a goal meets: the status of today's instance of the
\* goal for the child, "unclaimed" when there is none, "missing" for no goal.
GoalCase(child_id, goal_id) ==
    LET mine == {i \in kiosk.goal_instances :
                    i.goal_id = goal_id /\ i.child_id = child_id /\ i.date = today}
    IN IF Get(kiosk.goals, goal_id) = {} THEN "missing"
       ELSE IF mine = {} THEN "unclaimed"
       ELSE (CHOOSE i \in mine : TRUE).status

InstanceCase(instance_id) ==
    IF Get(kiosk.goal_instances, instance_id) = {} THEN "missing"
    ELSE TheRow(kiosk.goal_instances, instance_id).status

\* The case a request that takes minutes meets, by the child's balance: none,
\* less than the minutes asked for, or enough.
BalanceCase(child_id, minutes) ==
    LET mine == {x \in kiosk.wallets : x.child_id = child_id}
    IN IF mine = {} THEN "no_wallet"
       ELSE IF (CHOOSE x \in mine : TRUE).minutes_balance = 0 THEN "empty"
       ELSE IF (CHOOSE x \in mine : TRUE).minutes_balance < minutes THEN "short"
       ELSE "covered"

\* POST /child/{child_id}/claim
ClaimGoal(child_id, goal_id) ==
    LET res == claim(KioskWorld, child_id, goal_id)
    IN /\ KioskCommit(res.w)
       /\ Ran("claim", GoalCase(child_id, goal_id), res.err)

\* POST /parent/approve
Approve(instance_id, approved, pin) ==
    LET res == approve(KioskWorld, instance_id, approved, pin)
    IN /\ KioskCommit(res.w)
       /\ Ran(IF approved THEN "approve" ELSE "disapprove", InstanceCase(instance_id), res.err)

\* POST /child/{child_id}/play/start and /child/{child_id}/play/stop: the two
\* routes run the same code.
Play(child_id, minutes) ==
    /\ KioskCommit(spend_minutes(KioskWorld, child_id, minutes))
    /\ Ran("play", BalanceCase(child_id, minutes), None)

\* POST /child/{child_id}/cashout/request
RequestCashout(child_id, minutes) ==
    LET res == request_cashout(KioskWorld, child_id, minutes)
    IN /\ KioskCommit(res.w)
       /\ Ran("request_cashout", BalanceCase(child_id, minutes), res.err)

\* The kiosk: goals are claimed and approved, minutes are played and cashed out.
NextWallet ==
    \/ \E c \in KioskChildInputs, g \in GoalIdInputs : ClaimGoal(c, g)
    \/ \E i \in InstanceIdInputs, a \in BOOLEAN, pin \in PinInputs : Approve(i, a, pin)
    \/ \E c \in KioskChildInputs, m \in MinutesInputs : Play(c, m)
    \/ \E c \in KioskChildInputs, m \in MinutesInputs : RequestCashout(c, m)

SpecWallet == Init /\ [][NextWallet]_vars

\* The five transitions by name.
TaskOps == {"claim_task", "unclaim_task", "approve_task", "reject_task", "revoke_task"}

Transition(op, w, child_id, task_id) ==
    CASE op = "claim_task" -> claim_task(w, child_id, task_id)
      [] op = "unclaim_task" -> unclaim_task(w, child_id, task_id)
      [] op = "approve_task" -> approve_task(w, task_id)
      [] op = "reject_task" -> reject_task(w, task_id)
      [] op = "revoke_task" -> revoke_task(w, task_id)

\* What the session holds as changed on a loaded row once the handler has set
\* its attributes: an attribute set to the value it was loaded with is not
\* changed. Some(v) is a change to v, None is no change.
Changes(old, new) ==
    [state |-> IF new.state # old.state THEN Some(new.state) ELSE None,
     claimed_at |-> IF new.claimed_at # old.claimed_at THEN Some(new.claimed_at) ELSE None,
     approved_at |-> IF new.approved_at # old.approved_at THEN Some(new.approved_at) ELSE None]

NoChanges == [state |-> None, claimed_at |-> None, approved_at |-> None]

\* UPDATE daily_task_instances SET <the changed attributes> WHERE id = ?
Updated(row, changes) ==
    [row EXCEPT !.state = Patched(@, changes.state),
                !.claimed_at = Patched(@, changes.claimed_at),
                !.approved_at = Patched(@, changes.approved_at)]

\* A request running one of the five transitions beside others: session.get
\* loads the row, the tests run on it and the attributes are set on it,
\* reading utcnow(). A request that returns an error or changes no attribute
\* ends here.
TaskLoad(r, op, child_id, task_id) ==
    LET res == Transition(op, World, child_id, task_id)
        old == TheRow(tasks, task_id)
        changes == IF res.err # None \/ Get(tasks, task_id) = {} THEN NoChanges
                   ELSE Changes(old, TheRow(res.w.tasks, task_id))
    IN /\ reqs[r].pc = "idle"
       /\ res.w.clock <= MaxClock
       /\ clock' = res.w.clock
       /\ reqs' = [reqs EXCEPT ![r] =
                     IF changes = NoChanges THEN Idle
                     ELSE [pc |-> "loaded", op |-> op, task_id |-> task_id,
                           changes |-> changes]]
       /\ Ran(op, ChildTaskCase(child_id, task_id), res.err)
       /\ UNCHANGED <<today, children, templates, tasks, settings, kiosk>>

\* The same request: session.commit() flushes the changed attributes to the
\* row of that id and commits.
TaskWrite(r) ==
    /\ reqs[r].pc = "loaded"
    /\ tasks' = {IF t.id = reqs[r].task_id THEN Updated(t, reqs[r].changes) ELSE t
                 : t \in tasks}
    /\ reqs' = [reqs EXCEPT ![r] = Idle]
    /\ Ran("commit", reqs[r].op, None)
    /\ UNCHANGED <<today, clock, children, templates, settings, kiosk>>

\* Requests on the first child's instances that run beside each other.
NextOverlap ==
    \/ BuildState
    \/ \E r \in Requests, op \in TaskOps, t \in {u \in tasks : u.child_id = 1} :
          TaskLoad(r, op, t.child_id, t.id)
    \/ \E r \in Requests : TaskWrite(r)

SpecOverlap == Init /\ [][NextOverlap]_vars

\* A create_child request running beside others, lines 126-141: the rollover,
\* the select of the roster, the two tests, and the display orders set on the
\* loaded rows. A refused request ends here; another holds the orders it
\* changed and the new row until its commit.
CreateLoad(r, data) ==
    LET w1 == ensure_today_initialized(World)
        kids == ChildrenInOrder(w1)
        requested_order == IF data.display_order = None THEN Len(kids)
                           ELSE data.display_order[1]
        full == Len(kids) >= MAX_CHILDREN
        outside == requested_order < 0 \/ requested_order > Len(kids)
    IN /\ reqs[r].pc = "idle"
       /\ Commit(w1)
       /\ reqs' = [reqs EXCEPT ![r] =
                     IF full \/ outside THEN Idle
                     ELSE [pc |-> "adding", name |-> data.name,
                           requested_order |-> requested_order,
                           shifted |-> {[id |-> c.id, display_order |-> c.display_order + 1]
                                        : c \in {x \in w1.children :
                                                    x.display_order >= requested_order}}]]
       /\ Ran("create_child", GateCase(World),
              IF full THEN Some("Maximum of " \o ToString(MAX_CHILDREN) \o " children allowed")
              ELSE IF outside
                   THEN Some("display_order must be between 0 and " \o ToString(Len(kids)))
                   ELSE None)

\* The same request, lines 143-172: the commit writes the display orders it
\* changed to the rows of those ids and inserts the new child, then the child's
\* instances are added and committed. The update of a row that is gone raises
\* StaleDataError and nothing is written.
CreateWrite(r) ==
    LET q == reqs[r]
        stale == \E s \in q.shifted : Get(children, s.id) = {}
        moved == {IF \E s \in q.shifted : s.id = c.id
                  THEN [c EXCEPT !.display_order =
                                   (CHOOSE s \in q.shifted : s.id = c.id).display_order]
                  ELSE c : c \in children}
        new_child == [id |-> NewId(children), name |-> q.name,
                      display_order |-> q.requested_order, color |-> None]
        w2 == [World EXCEPT !.children = moved \cup {new_child}]
        template_items == TemplateItems(w2, TemplateTypeOf(today))
        added == Materialize(w2.tasks, LoopPairs(<<new_child>>, template_items),
                             today_str(World))
    IN /\ q.pc = "adding"
       /\ NewId(children) <= MaxChildId
       /\ Commit(IF stale THEN World ELSE [w2 EXCEPT !.tasks = @ \cup added])
       /\ reqs' = [reqs EXCEPT ![r] = Idle]
       /\ Ran("commit", "create_child", IF stale THEN Some("StaleDataError") ELSE None)

\* A delete_child request running beside others, lines 218-224: session.get
\* and the count of the roster.
DeleteLoad(r, child_id) ==
    LET found == Get(children, child_id)
        floor == Cardinality(children) <= MIN_CHILDREN
    IN /\ reqs[r].pc = "idle"
       /\ reqs' = [reqs EXCEPT ![r] =
                     IF found = {} \/ floor THEN Idle
                     ELSE [pc |-> "deleting", child_id |-> child_id]]
       /\ Ran("delete_child", RosterCase(child_id),
              IF found = {} THEN Some("Child not found")
              ELSE IF floor THEN Some("At least one child must remain") ELSE None)
       /\ UNCHANGED <<today, clock, children, templates, tasks, settings, kiosk>>

\* The same request, lines 226-234: the deletes, the select of the remaining
\* children, their renumbering and the commit, in one write transaction.
DeleteWrite(r) ==
    LET child_id == reqs[r].child_id
        selected == IF autoflush THEN {c \in children : c.id # child_id} ELSE children
        remaining == OrderBy(selected, [c \in selected |-> c.display_order])
    IN /\ reqs[r].pc = "deleting"
       /\ Commit([World EXCEPT !.tasks = {t \in @ : t.child_id # child_id},
                               !.templates = {t \in @ : t.child_id # Some(child_id)},
                               !.children = {c \in Enumerated(remaining) : c.id # child_id}])
       /\ reqs' = [reqs EXCEPT ![r] = Idle]
       /\ Ran("commit", "delete_child", None)

\* Roster requests that run beside each other.
NextCrowd ==
    \/ \E r \in Requests, data \in ChildInputs : CreateLoad(r, data)
    \/ \E r \in Requests : CreateWrite(r)
    \/ \E r \in Requests, c \in {1, NewId(children)} : DeleteLoad(r, c)
    \/ \E r \in Requests : DeleteWrite(r)

SpecCrowd == Init /\ [][NextCrowd]_vars

\* A weekday after its rollover: instances are claimed and approved, templates
\* of the day's type and children are added and removed, and the state is read
\* again.
NextGate ==
    \/ BuildState
    \/ \E t \in {u \in tasks : u.child_id = 1} : ClaimTask(t.child_id, t.id)
    \/ \E t \in {u \in tasks : u.child_id = 2} : ApproveTask(t.id)
    \/ \E data \in {d \in TemplateInputs : d.template_type = "WEEKDAY"} :
          CreateTemplateTask(data)
    \/ \E t \in {u \in templates : u.template_type = "WEEKDAY"} : DeleteTemplateTask(t.id)
    \/ \E data \in {d \in ChildInputs : d.display_order = None} : CreateChildAt(data)
    \/ DeleteChild(3)

SpecGate == Init /\ [][NextGate]_vars

\* POST /api/parent/today/tasks bodies for the first child: category is any
\* string (TaskCreate), here one of CATEGORIES and one that is not.
CategoryTaskInputs ==
    [child_id : {Some(1)}, category : {"SCHOOLWORK", "CHORES"},
     title : {"Extra"}, required : {FALSE}, reward_text : {None}, sort_order : {0, 5}]

\* PUT /api/parent/today/tasks/{task_id} bodies that move an instance to
\* another category or to the head of its list.
CategoryUpdateInputs ==
    {[category |-> Some("CHORES"), title |-> None, required |-> None,
      reward_text |-> None, sort_order |-> None],
     [category |-> Some("SCHOOLWORK"), title |-> None, required |-> None,
      reward_text |-> None, sort_order |-> Some(0)]}

\* The snapshot of a day on which the parent adds and edits one-off tasks of
\* the first child, who claims, and the parent approves.
NextSnapshot ==
    \/ BuildState
    \/ \E data \in CategoryTaskInputs : CreateTodayTask(data)
    \/ \E t \in {u \in tasks : u.child_id = 1}, data \in CategoryUpdateInputs :
          UpdateTodayTask(t.id, data)
    \/ \E t \in {u \in tasks : u.child_id = 1} : ClaimTask(t.child_id, t.id)
    \/ \E t \in {u \in tasks : u.child_id = 1} : ApproveTask(t.id)

SpecSnapshot == Init /\ [][NextSnapshot]_vars

\* POST /api/parent/today/tasks bodies that give the second child a task with
\* a reward.
RewardTaskInputs ==
    [child_id : {Some(2)}, category : {"HELPFUL"}, title : {"Extra"},
     required : {FALSE}, reward_text : {Some("+15 min")}, sort_order : {5}]

\* PUT /api/parent/today/tasks/{task_id} bodies that set two fields and leave
\* the others out or null.
TodayPatchInputs ==
    {[category |-> Some("HYGIENE"), title |-> None, required |-> None,
      reward_text |-> None, sort_order |-> Some(0)]}

\* PUT /api/parent/templates/tasks/{task_id} bodies of the same kind.
TemplatePatchInputs ==
    {[template_type |-> None, category |-> None, title |-> None,
      required |-> Some(TRUE), reward_text |-> None, sort_order |-> Some(7),
      child_id |-> None]}

\* The second child's own template and one-off task are edited field by field
\* while the child claims the task and the parent approves the claim.
NextPatch ==
    \/ BuildState
    \/ \E data \in {d \in TemplateInputs : d.template_type = "WEEKDAY"} :
          CreateTemplateTask(data)
    \/ \E id \in {t.id : t \in {u \in templates : u.child_id = Some(2)}}
                    \cup {NewId(templates)},
          data \in TemplatePatchInputs : UpdateTemplateTask(id, data)
    \/ \E data \in RewardTaskInputs : CreateTodayTask(data)
    \/ \E id \in {t.id : t \in {u \in tasks : u.title = "Extra"}} \cup {NewId(tasks)},
          data \in TodayPatchInputs : UpdateTodayTask(id, data)
    \/ \E t \in {u \in tasks : u.title = "Extra" /\ u.state = "OPEN"} :
          ClaimTask(t.child_id, t.id)
    \/ \E t \in {u \in tasks : u.title = "Extra" /\ u.state = "PENDING"} :
          ApproveTask(t.id)

SpecPatch == Init /\ [][NextPatch]_vars

\* A create_child request running beside state reads, lines 126-143: the
\* rollover, the two tests, the shift and the new row, committed on line 143.
\* A refused request ends here; another goes on with the id of its child.
AddChild(r, data) ==
    LET w1 == ensure_today_initialized(World)
        kids == ChildrenInOrder(w1)
        requested_order == IF data.display_order = None THEN Len(kids)
                           ELSE data.display_order[1]
        full == Len(kids) >= MAX_CHILDREN
        outside == requested_order < 0 \/ requested_order > Len(kids)
        shifted == {IF c.display_order >= requested_order
                    THEN [c EXCEPT !.display_order = @ + 1] ELSE c : c \in w1.children}
        new_child == [id |-> NewId(w1.children), name |-> data.name,
                      display_order |-> requested_order, color |-> None]
    IN /\ reqs[r].pc = "idle"
       /\ NewId(w1.children) <= MaxChildId
       /\ Commit(IF full \/ outside THEN w1
                 ELSE [w1 EXCEPT !.children = shifted \cup {new_child}])
       /\ reqs' = [reqs EXCEPT ![r] =
                     IF full \/ outside THEN Idle
                     ELSE [pc |-> "backfilling", new_child |-> new_child]]
       /\ Ran("create_child", GateCase(World),
              IF full THEN Some("Maximum of " \o ToString(MAX_CHILDREN) \o " children allowed")
              ELSE IF outside
                   THEN Some("display_order must be between 0 and " \o ToString(Len(kids)))
                   ELSE None)

\* The same request, lines 145-172: the select of the day's templates, the
\* instances of those that apply to the new child, and the second commit.
BackfillChild(r) ==
    LET q == reqs[r]
        template_items == TemplateItems(World, TemplateTypeOf(today))
        added == Materialize(tasks, LoopPairs(<<q.new_child>>, template_items),
                             today_str(World))
    IN /\ q.pc = "backfilling"
       /\ Commit([World EXCEPT !.tasks = @ \cup added])
       /\ reqs' = [reqs EXCEPT ![r] = Idle]
       /\ Ran("commit", "create_child", None)

\* Children are added while the state is read, over a midnight.
NextBackfill ==
    \/ NextDay
    \/ BuildState
    \/ \E r \in Requests, data \in ChildInputs : AddChild(r, data)
    \/ \E r \in Requests : BackfillChild(r)

SpecBackfill == Init /\ [][NextBackfill]_vars

\* The first child's days: the parent adds a required one-off task and
\* approves the day's instances, before and after the day's rollover.
NextReset ==
    \/ NextDay
    \/ BuildState
    \/ \E data \in RequiredTaskInputs : CreateTodayTask(data)
    \/ \E t \in {u \in tasks : u.child_id = 1 /\ u.date = today} : ApproveTask(t.id)

SpecReset == Init /\ [][NextReset]_vars

----------------------------------------------------------------------------
(* Properties. *)

\* The fields of a task that only the state machine writes.
Moved(task, state, claimed_at, approved_at) ==
    [task EXCEPT !.state = state, !.claimed_at = claimed_at, !.approved_at = approved_at]

\* The fields an instance copies from its template.
Copied(row) == <<row.category, row.title, row.required, row.reward_text, row.sort_order>>

\* Whether template t applies to child c on a day of the given type.
Applies(t, c, template_type) ==
    /\ t.template_type = template_type
    /\ t.child_id = None \/ t.child_id = Some(c.id)

RolledOver == \E s \in settings : s.last_reset_date = Some(today)

\* C1. Rollover idempotence: in every reachable state, running
\* ensure_today_initialized a second time on the same day leaves the tasks the
\* first run left, and so does running it through build_state or create_child
\* (create_child adds rows only for the child it creates); no row is
\* materialized a second time.
RolloverIdempotent ==
    LET once == ensure_today_initialized(World)
        twice == ensure_today_initialized(once)
    IN /\ twice.tasks = once.tasks
       /\ build_state(once).tasks = once.tasks
       /\ \A data \in ChildInputs :
            {t \in create_child(once, data).w.tasks :
                \E c \in once.children : c.id = t.child_id} = once.tasks

\* A second build_state of the day has run on a day with tasks.
RolloverRepeated ==
    /\ last.op = "build_state"
    /\ last.case = "same_day"
    /\ \E t \in tasks : t.date = today

\* C2. Exactly-once materialization under concurrency: once today's rollover is
\* committed and no request is inside ensure_today_initialized, each child has
\* exactly one instance dated today for each template of today's type that
\* applies to it.
ExactlyOnceUnderRace ==
    (RolledOver /\ \A r \in Requests : reqs[r].pc = "idle") =>
        \A c \in children, t \in templates :
            Applies(t, c, TemplateTypeOf(today)) =>
                Cardinality({i \in tasks : /\ i.date = today
                                           /\ i.child_id = c.id
                                           /\ Copied(i) = Copied(t)}) = 1

\* C3. Rollover correctness: when the gate is open, ensure_today_initialized
\* keeps every existing row and adds, for every child and every template of
\* today's type that is unscoped or scoped to that child, one instance dated
\* today, owned by the child, OPEN, with the template's category, title,
\* required, reward_text and sort_order; it adds nothing else, and it sets
\* last_reset_date to today.
RolloverCorrect ==
    LET got == get_settings(seed_data(World))
        after == ensure_today_initialized(World)
        added == after.tasks \ tasks
        type == TemplateTypeOf(today)
        pairs == {<<c, t>> \in after.children \X after.templates : Applies(t, c, type)}
        FromPair(i, c, t) ==
            i = InstanceOf(i.id, today, c, t)
    IN got.row.last_reset_date # Some(today) =>
         /\ tasks \subseteq after.tasks
         /\ \A i \in added : \E p \in pairs : FromPair(i, p[1], p[2])
         /\ \A p \in pairs :
              Cardinality({i \in added : FromPair(i, p[1], p[2])})
                = Cardinality({q \in pairs : q[1] = p[1] /\ Copied(q[2]) = Copied(p[2])})
         /\ Cardinality(added) = Cardinality(pairs)
         /\ \A i, j \in after.tasks : i.id = j.id => i = j
         /\ after.settings # {}
         /\ \A st \in after.settings : st.last_reset_date = Some(today)

\* The first build_state of a day has run where a template is scoped to one
\* child, another template has the other day-type, and the scoped template
\* gave its child, and only that child, an instance today.
RolloverMaterialized ==
    /\ last.op = "build_state"
    /\ last.case = "new_day"
    /\ \E t \in templates : t.child_id # None /\ t.template_type = TemplateTypeOf(today)
    /\ \E t \in templates : t.template_type # TemplateTypeOf(today)
    /\ \E i \in tasks : i.date = today /\ i.title = "Dishes" /\ i.child_id = 2
    /\ ~ \E i \in tasks : i.date = today /\ i.title = "Dishes" /\ i.child_id # 2

\* C4. claim_task by the owner: an OPEN instance becomes PENDING with claimed_at
\* set and approved_at null; a PENDING instance is left as it is; both return
\* success, and no other row changes.
ClaimOpenOrPending ==
    \A t \in tasks :
        LET res == claim_task(World, t.child_id, t.id)
        IN /\ t.state = "OPEN" =>
                /\ res.err = None
                /\ \E at \in 1 .. (clock + 1) :
                     res.w.tasks = (tasks \ {t}) \cup {Moved(t, "PENDING", Some(at), None)}
           /\ t.state = "PENDING" =>
                /\ res.err = None
                /\ res.w.tasks = tasks

\* A claim of an instance that was already PENDING has returned success.
ClaimedAgain ==
    /\ last = [op |-> "claim_task", case |-> "PENDING", err |-> None]
    /\ \E t \in tasks : t.state = "PENDING" /\ t.claimed_at # None /\ t.approved_at = None

\* C5. claim_task on an APPROVED instance returns "Task already approved" and
\* changes nothing.
ClaimApprovedRefused ==
    \A t \in tasks :
        t.state = "APPROVED" =>
            LET res == claim_task(World, t.child_id, t.id)
            IN /\ res.err = Some("Task already approved")
               /\ res.w = World

\* A claim of an APPROVED instance has been refused.
ClaimRefused ==
    /\ last = [op |-> "claim_task", case |-> "APPROVED",
               err |-> Some("Task already approved")]
    /\ \E t \in tasks : t.state = "APPROVED"

\* C6. Ownership: claim_task and unclaim_task return "Task not found" and change
\* nothing when the instance does not exist or belongs to another child; so
\* whatever a request made with child id c changes is a row owned by c.
ChildOwnsWhatItChanges ==
    \A c \in ChildIdInputs, id \in TaskIdInputs :
        LET claimed == claim_task(World, c, id)
            unclaimed == unclaim_task(World, c, id)
            Changed(res) == (tasks \ res.w.tasks) \cup (res.w.tasks \ tasks)
        IN /\ (Get(tasks, id) = {} \/ TheRow(tasks, id).child_id # c) =>
                /\ claimed = Fail(World, "Task not found")
                /\ unclaimed = Fail(World, "Task not found")
           /\ \A row \in Changed(claimed) \cup Changed(unclaimed) : row.child_id = c

\* A child's unclaim of another child's PENDING instance has been refused.
ForeignUnclaimRefused ==
    /\ last = [op |-> "unclaim_task", case |-> "foreign", err |-> Some("Task not found")]
    /\ \E t \in tasks : t.state = "PENDING"

\* C7. unclaim_task by the owner: a PENDING instance becomes OPEN with both
\* timestamps null; an OPEN or APPROVED instance is left as it is; all return
\* success.
UnclaimOnlyPending ==
    \A t \in tasks :
        LET res == unclaim_task(World, t.child_id, t.id)
        IN /\ res.err = None
           /\ t.state = "PENDING" =>
                res.w = [World EXCEPT !.tasks = (tasks \ {t}) \cup {Moved(t, "OPEN", None, None)}]
           /\ t.state \in {"OPEN", "APPROVED"} => res.w = World

\* An unclaim of an APPROVED instance has returned success.
UnclaimedApproved ==
    /\ last = [op |-> "unclaim_task", case |-> "APPROVED", err |-> None]
    /\ \E t \in tasks : t.state = "APPROVED" /\ t.approved_at # None

\* C8. approve_task on an existing instance in any state leaves it APPROVED
\* with approved_at set; claimed_at keeps its value if it had one and is set
\* otherwise; no other row changes.
ApproveFromAnyState ==
    \A t \in tasks :
        LET res == approve_task(World, t.id)
            now == TheRow(res.w.tasks, t.id)
        IN /\ res.err = None
           /\ res.w.tasks = (tasks \ {t}) \cup {now}
           /\ now = Moved(t, "APPROVED", now.claimed_at, now.approved_at)
           /\ now.approved_at # None
           /\ now.claimed_at # None
           /\ t.claimed_at # None => now.claimed_at = t.claimed_at

\* An approval of an instance that was already APPROVED has run, and the
\* instance still carries an earlier claim time.
ApprovedAgain ==
    /\ last = [op |-> "approve_task", case |-> "APPROVED", err |-> None]
    /\ \E t \in tasks : /\ t.state = "APPROVED"
                        /\ t.approved_at = Some(clock)
                        /\ t.claimed_at # None
                        /\ t.claimed_at[1] < clock - 1

\* C9. reject_task and revoke_task are the same operation: on every id they
\* return the same value and leave the same store; an existing instance ends
\* OPEN with both timestamps null, a missing id gives "Task not found" and no
\* change.
RejectIsRevoke ==
    \A id \in TaskIdInputs :
        LET rejected == reject_task(World, id)
            revoked == revoke_task(World, id)
        IN /\ rejected = revoked
           /\ Get(tasks, id) = {} => rejected = Fail(World, "Task not found")
           /\ Get(tasks, id) # {} =>
                LET t == TheRow(tasks, id)
                IN rejected = Ok([World EXCEPT !.tasks =
                                    (tasks \ {t}) \cup {Moved(t, "OPEN", None, None)}])

\* A reject of an APPROVED instance has run and left an OPEN one.
RejectedApproved ==
    /\ last = [op |-> "reject_task", case |-> "APPROVED", err |-> None]
    /\ \E t \in tasks : t.state = "OPEN" /\ t.claimed_at = None /\ t.approved_at = None

\* C10. approve_task then revoke_task on an instance that was OPEN or PENDING
\* leaves it OPEN with claimed_at and approved_at null, and no other row
\* changed.
ApproveThenRevoke ==
    \A t \in tasks :
        t.state \in {"OPEN", "PENDING"} =>
            LET approved == approve_task(World, t.id)
                revoked == revoke_task(approved.w, t.id)
            IN /\ approved.err = None
               /\ revoked.err = None
               /\ revoked.w.tasks = (tasks \ {t}) \cup {Moved(t, "OPEN", None, None)}

\* A revoke of an APPROVED instance has run and every instance is OPEN again
\* with no timestamps, after the clock was read for an approval.
RevokedApproved ==
    /\ last = [op |-> "revoke_task", case |-> "APPROVED", err |-> None]
    /\ clock >= 2
    /\ tasks # {}
    /\ \A t \in tasks : t.state = "OPEN" /\ t.claimed_at = None /\ t.approved_at = None

\* C11. Unlock invariant: in the snapshot build_state returns, every child of
\* the roster has one entry, and its unlocked is true exactly when every
\* instance of that child that is dated today and required is APPROVED (so a
\* child with no such instance is unlocked); instances of other dates and
\* instances that are not required do not enter into it.
UnlockInvariant ==
    LET after == build_state(World)
        resp == state_response(World)
        entries == {resp.children[i] : i \in 1 .. Len(resp.children)}
    IN /\ Len(resp.children) = Cardinality(after.children)
       /\ {e.id : e \in entries} = {c.id : c \in after.children}
       /\ \A e \in entries :
            e.unlocked <=> \A t \in after.tasks :
                              (t.child_id = e.id /\ t.date = after.today /\ t.required)
                                  => t.state = "APPROVED"

\* build_state has run where a child is unlocked although an instance of an
\* earlier day that is required, and an instance of today that is not, are
\* still OPEN, while another child is locked.
UnlockedDespiteOthers ==
    LET resp == state_response(World)
        entries == {resp.children[i] : i \in 1 .. Len(resp.children)}
    IN /\ last.op = "build_state"
       /\ \E e \in entries :
            /\ e.unlocked
            /\ \E t \in tasks : /\ t.child_id = e.id /\ t.date = today
                                /\ t.required /\ t.state = "APPROVED"
            /\ \E t \in tasks : /\ t.child_id = e.id /\ t.date = today
                                /\ ~t.required /\ t.state = "OPEN"
            /\ \E t \in tasks : /\ t.child_id = e.id /\ t.date < today
                                /\ t.required /\ t.state = "OPEN"
       /\ \E e \in entries : ~e.unlocked

\* C12. Roster bounds: once the roster has been seeded it holds between
\* MIN_CHILDREN (1) and MAX_CHILDREN (5) children; create_child on a roster of
\* 5 is refused and adds no child; delete_child on a roster of 1 is refused and
\* removes no child, instance or template.
RosterBounds ==
    LET N == Cardinality(children)
    IN /\ settings # {} => (MIN_CHILDREN <= N /\ N <= MAX_CHILDREN)
       /\ N = 5 => \A data \in RosterChildInputs :
                      LET res == create_child(World, data)
                      IN /\ res.err = Some("Maximum of 5 children allowed")
                         /\ res.w.children = children
       /\ N = 1 => \A c \in children :
                      delete_child(World, c.id) = Fail(World, "At least one child must remain")

\* A delete of the only child, which still has instances, has been refused.
SoleChildKept ==
    /\ last = [op |-> "delete_child", case |-> "sole",
               err |-> Some("At least one child must remain")]
    /\ Cardinality(children) = 1
    /\ \E t \in tasks : \E c \in children : t.child_id = c.id

\* C13. Display-order density: after any create_child, update_child or
\* delete_child, refused or not, the display orders of the children are
\* 0 .. N-1, each once.
DisplayOrderDense ==
    LET N == Cardinality(children)
    IN /\ {c.display_order : c \in children} = 0 .. (N - 1)
       /\ \A c, d \in children : c.display_order = d.display_order => c = d

\* The child first in the order has been deleted from a roster that had been
\* grown to four or more, and the rest start at 0 again.
FirstChildDeleted ==
    /\ last = [op |-> "delete_child", case |-> "first", err |-> None]
    /\ Cardinality(children) >= 3
    /\ \E c \in children : c.display_order = 0
    /\ \E c \in children : c.id > 3

\* Every instance is owned by a child of the roster.
Integrity(w) == \A t \in w.tasks : \E c \in w.children : c.id = t.child_id

\* C14. Referential integrity: in every reachable state every instance's
\* child_id is the id of a child in the roster, and it stays so after a
\* rollover, a create_today_task, a create_child or a delete_child; after a
\* successful delete_child(id) no instance and no template has child_id = id.
ReferentialIntegrity ==
    /\ Integrity(World)
    /\ Integrity(ensure_today_initialized(World))
    /\ Integrity(ensure_today_initialized([World EXCEPT !.today = @ + 1]))
    /\ \A data \in TodayTaskInputs : Integrity(create_today_task(World, data).w)
    /\ \A data \in ChildInputs : Integrity(create_child(World, data).w)
    /\ \A id \in ChildIdInputs :
         LET res == delete_child(World, id)
         IN /\ Integrity(res.w)
            /\ res.err = None =>
                 /\ \A c \in res.w.children : c.id # id
                 /\ \A t \in res.w.tasks : t.child_id # id
                 /\ \A t \in res.w.templates : t.child_id # Some(id)

\* Child 2 has been deleted after one-off tasks were added for every child:
\* instances older than ones that remain are gone, and what remains belongs to
\* the children that remain.
ChildDeletedWithTasks ==
    /\ last = [op |-> "delete_child", case |-> "other", err |-> None]
    /\ \A c \in children : c.id # 2
    /\ \E t \in tasks : t.title = "Extra"
    /\ \E t \in tasks : \E k \in 1 .. t.id : \A u \in tasks : u.id # k
    /\ \A t \in templates : t.child_id # Some(2)

\* C15. approved_at is non-null exactly when the state is APPROVED, for every
\* instance, whatever sequence of rollover, create_today_task, claim, unclaim,
\* approve, reject and revoke has run.
ApprovedAtIffApproved ==
    \A t \in tasks : (t.approved_at # None) <=> (t.state = "APPROVED")

\* A one-off task that its child had claimed has been approved, beside
\* instances of the rollover that are still OPEN.
OneOffApproved ==
    /\ last = [op |-> "approve_task", case |-> "PENDING", err |-> None]
    /\ \E t \in tasks : /\ t.title = "Extra"
                        /\ t.state = "APPROVED"
                        /\ t.approved_at # None
                        /\ t.claimed_at # None
    /\ \E t \in tasks : t.title # "Extra" /\ t.state = "OPEN" /\ t.approved_at = None

\* C16. Templates are not retroactive: create_template_task,
\* update_template_task and delete_template_task leave the instance rows as
\* they are, so an instance keeps what it copied when its template is edited or
\* deleted; and once today's rollover has run, a template added, edited or
\* deleted today gives no child an instance and takes none away in what is
\* left of the day.
TemplatesNotRetroactive ==
    /\ \A data \in TemplateInputs :
         LET w1 == create_template_task(World, data)
         IN /\ w1.tasks = tasks
            /\ RolledOver => build_state(w1).tasks = tasks
    /\ \A id \in TemplateIdInputs :
         /\ \A data \in TemplateUpdateInputs :
              LET res == update_template_task(World, id, data)
              IN /\ res.w.tasks = tasks
                 /\ RolledOver => build_state(res.w).tasks = tasks
         /\ LET res == delete_template_task(World, id)
            IN /\ res.w.tasks = tasks
               /\ RolledOver => build_state(res.w).tasks = tasks

\* A template has been edited after today's rollover: instances of today still
\* carry the title and the required flag that no template has any more.
EditedAfterRollover ==
    /\ last = [op |-> "update_template_task", case |-> "found", err |-> None]
    /\ RolledOver
    /\ \E t \in templates : t.title = "Chores" /\ ~t.required
                            /\ t.template_type = TemplateTypeOf(today)
    /\ \E i \in tasks : /\ i.date = today /\ i.required
                        /\ \A t \in templates : t.title # i.title
    /\ \A i \in tasks : i.title # "Chores"

\* What a successful create_child(w, data) leaves: one new child, its
\* instances as the templates give them, everything else as it was.
Backfilled(w, data) ==
    LET res == create_child(w, data)
        added == res.w.children \ {c \in res.w.children :
                                      \E old \in w.children : old.id = c.id}
        new_child == CHOOSE c \in added : TRUE
        mine == {i \in res.w.tasks : i.child_id = new_child.id}
        type == TemplateTypeOf(w.today)
        items == {t \in res.w.templates : Applies(t, new_child, type)}
    IN res.err = None =>
         /\ Cardinality(added) = 1
         /\ Cardinality(res.w.children) = Cardinality(w.children) + 1
         /\ {i \in res.w.tasks : i.child_id # new_child.id} = w.tasks
         /\ \A i \in mine : \E t \in items : i = InstanceOf(i.id, w.today, new_child, t)
         /\ \A t \in items :
              Cardinality({i \in mine : i = InstanceOf(i.id, w.today, new_child, t)})
                = Cardinality({u \in items : Copied(u) = Copied(t)})
         /\ Cardinality(mine) = Cardinality(items)

\* C17. Roster backfill: on a day whose rollover has run, a successful
\* create_child adds one child, gives it one OPEN instance dated today for each
\* template of today's day-type that is unscoped or scoped to the new child's
\* id, and nothing else, and leaves the instances of every other child as they
\* were.
RosterBackfill ==
    RolledOver =>
      \A data \in RosterChildInputs :
        /\ Backfilled(World, data)
        \* also with a template that names the id the new child is about to get
        /\ \A item \in TemplateInputs :
             Backfilled(create_template_task(World,
                            [item EXCEPT !.child_id = Some(NewId(children))]), data)

\* A child has been added after today's rollover: it has today's instance of
\* the unscoped template, OPEN, and none of the template scoped to child 2,
\* whose own instances are as before.
ChildBackfilled ==
    /\ last = [op |-> "create_child", case |-> "same_day", err |-> None]
    /\ \E t \in templates : t.child_id = Some(2) /\ t.template_type = TemplateTypeOf(today)
    /\ \E c \in children :
         /\ c.id > 3
         /\ \E i \in tasks : i.child_id = c.id /\ i.date = today /\ i.state = "OPEN"
         /\ \A i \in tasks : i.child_id = c.id => (i.date = today /\ i.title # "Dishes")
    /\ \E i \in tasks : i.child_id = 2 /\ i.date = today /\ i.title = "Dishes"

\* C18. Failed operations change nothing: on a store the startup has
\* initialized, a create_child refused for capacity or for a display_order out
\* of range leaves children, templates, instances and the settings row
\* (last_reset_date) exactly as they were, also when it is the first request
\* of a new day.
RefusedCreateChangesNothing ==
    settings # {} =>
      \A data \in RosterChildInputs :
        LET res == create_child(World, data)
        IN res.err # None =>
             /\ res.w.children = children
             /\ res.w.templates = templates
             /\ res.w.tasks = tasks
             /\ res.w.settings = settings

\* C18 as amended. A refused create_child leaves the store as a call of
\* ensure_today_initialized alone leaves it: the roster and the templates are
\* as before once they are seeded, no child is added or moved, and nothing at
\* all changes when today's rollover had already run; as the first request of
\* a day, the refused call has still done that day's rollover.
RefusedCreateOnlyRollsOver ==
    \A data \in RosterChildInputs :
      LET res == create_child(World, data)
      IN res.err # None =>
           /\ res.w = ensure_today_initialized(World)
           /\ children # {} => res.w.children = children
           /\ templates # {} => res.w.templates = templates
           /\ (children # {} /\ templates # {} /\ RolledOver) => res.w = World
           /\ \A t \in res.w.tasks \ tasks : t.date = today /\ t.state = "OPEN"

\* A create_child on a full roster, the first request of its day, has been
\* refused, and every child has instances dated today.
RefusedCreateRolledOver ==
    /\ last = [op |-> "create_child", case |-> "new_day",
               err |-> Some("Maximum of 5 children allowed")]
    /\ Cardinality(children) = 5
    /\ today > FirstDay
    /\ RolledOver
    /\ \A c \in children : \E t \in tasks : t.child_id = c.id /\ t.date = today

\* C19. Settings singleton: the settings table never holds more than one row,
\* and holds exactly one once a get_settings has returned, also when two
\* processes run get_settings beside each other on an empty table.
SettingsSingleton ==
    /\ Cardinality(settings) <= 1
    /\ (\E r \in Requests : reqs[r].pc = "rollover") => Cardinality(settings) = 1

\* C20. Past-day instances are immutable: once the calendar has moved past an
\* instance's date, no step (claim, unclaim, approve, reject, revoke,
\* update_today_task, delete_today_task, delete_child, rollover) changes or
\* removes the instance.
PastInstancesImmutable ==
    [][\A i \in tasks : i.date < today => i \in tasks']_vars

\* C20 as amended. The rollover never revisits an earlier day: an instance
\* dated before today is left as it is by ensure_today_initialized (so by
\* build_state), by create_child and by create_today_task, and what they add
\* is dated today. (The handlers that take an instance id, and delete_child,
\* do not look at the date.)
PastKeptByRollover ==
    LET rolled == ensure_today_initialized(World)
    IN /\ \A t \in rolled.tasks \ tasks : t.date = today
       /\ \A i \in tasks :
            i.date < today =>
              /\ i \in rolled.tasks
              /\ \A data \in RosterChildInputs : i \in create_child(World, data).w.tasks
              /\ \A data \in TodayTaskInputs :
                   /\ i \in create_today_task(World, data).w.tasks
                   /\ \A t \in create_today_task(World, data).w.tasks \ tasks :
                        t.date = today

\* The first build_state of a later day has run, and beside today's
\* instances stands one of the day before that was approved after its day.
RolledOverBesidePast ==
    /\ last = [op |-> "build_state", case |-> "new_day", err |-> None]
    /\ today > FirstDay
    /\ \E i \in tasks : /\ i.date < today
                        /\ i.state = "APPROVED"
                        /\ \E j \in tasks : j.date = today /\ j.child_id = i.child_id

\* The states the state machine leaves an instance in.
LiveStates == {"OPEN", "PENDING", "APPROVED"}

\* C21. REJECTED is unreachable: every instance's state is OPEN, PENDING or
\* APPROVED, and no operation on the store (the five transitions on any id, the
\* rollover, a new child, a one-off task, an edit of an instance) leaves an
\* instance in another state.
RejectedUnreachable ==
    /\ \A t \in tasks : t.state \in LiveStates
    /\ \A id \in TaskIdInputs, c \in ChildIdInputs :
         \A w \in {claim_task(World, c, id).w, unclaim_task(World, c, id).w,
                   approve_task(World, id).w, reject_task(World, id).w,
                   revoke_task(World, id).w} :
            \A t \in w.tasks : t.state \in LiveStates
    /\ \A w \in {build_state(World)}
                \cup {create_child(World, data).w : data \in ChildInputs}
                \cup {create_today_task(World, data).w : data \in TodayTaskInputs}
                \cup {update_today_task(World, id, data).w :
                         id \in TaskIdInputs, data \in TodayUpdateInputs} :
         \A t \in w.tasks : t.state \in LiveStates

\* A reject of a PENDING instance has run, and the instance it named is OPEN.
RejectLeftOpen ==
    /\ last = [op |-> "reject_task", case |-> "PENDING", err |-> None]
    /\ \E t \in tasks : t.state = "OPEN"
    /\ \A t \in tasks : t.state # "REJECTED"

\* C22. In the snapshot, every child's percent_complete is
\* floor(100 * required_approved / required_total) over the child's instances
\* dated today with required = true, and 0 when it has no such instance (so
\* instances that are not required never change it, and it is 100 once every
\* required instance is approved).
PercentIsFloor ==
    LET w == build_state(World)
        snapshot == state_response(World)
    IN \A i \in 1 .. Len(snapshot.children) :
          LET entry == snapshot.children[i]
              required == {t \in w.tasks : /\ t.date = w.today
                                           /\ t.child_id = entry.id
                                           /\ t.required}
              approved == {t \in required : t.state = "APPROVED"}
          IN entry.percent_complete =
                IF required = {} THEN 0
                ELSE (100 * Cardinality(approved)) \div Cardinality(required)

\* Whether the store w holds today's rollover: last_reset_date is today.
GateClosed(w) == w.settings # {} /\ \A s \in w.settings : s.last_reset_date = Some(w.today)

\* Whether every child of w has today's instance of every template of today's
\* type that applies to it.
Materialized(w) ==
    \A c \in w.children, t \in w.templates :
        Applies(t, c, TemplateTypeOf(w.today)) =>
            \E i \in w.tasks : /\ i.date = w.today
                               /\ i.child_id = c.id
                               /\ Copied(i) = Copied(t)

\* Whether `after` is a store the day's rollover has run on: the gate is
\* closed, and if it was open in `before` the day's instances are there.
Triggered(before, after) ==
    /\ GateClosed(after)
    /\ ~GateClosed(before) => Materialized(after)

SeedingIsOneTime ==
    [][(settings # {} /\ last'.op = "build_state")
          => (children' = children /\ templates' = templates)]_vars

\* The sum of minutes_delta over a set of transactions.
RECURSIVE MinutesDelta(_)
MinutesDelta(rows) ==
    IF rows = {} THEN 0
    ELSE LET row == CHOOSE r \in rows : TRUE
         IN row.minutes_delta + MinutesDelta(rows \ {row})

\* C25. Wallet ledger completeness: every change of a wallet's balance is
\* recorded by a Transaction row, so each child's minutes_balance is the sum of
\* minutes_delta over that child's transactions.
LedgerComplete ==
    \A x \in kiosk.wallets :
        x.minutes_balance =
            MinutesDelta({t \in kiosk.transactions : t.child_id = x.child_id})

\* C26. Under any interleaving of concurrent claim, unclaim, approve, reject
\* and revoke requests on one instance, the committed instance is never
\* half-transitioned: approved_at is non-null iff its state is APPROVED, and
\* claimed_at is non-null iff its state is PENDING or APPROVED.
NeverHalfTransitioned ==
    \A t \in tasks :
        /\ t.approved_at # None <=> t.state = "APPROVED"
        /\ t.claimed_at # None <=> t.state \in {"PENDING", "APPROVED"}

\* C27. Roster invariants under concurrency: when create_child and
\* delete_child requests interleave, each reading the roster before the other
\* commits, the roster of a started server still holds between MIN_CHILDREN
\* and MAX_CHILDREN children and their display orders are a permutation of
\* 0..N-1.
RosterBoundsUnderRace ==
    settings # {} =>
        /\ Cardinality(children) >= MIN_CHILDREN
        /\ Cardinality(children) <= MAX_CHILDREN
        /\ \A c, d \in children : c.display_order = d.display_order => c = d
        /\ {c.display_order : c \in children} = 0 .. (Cardinality(children) - 1)

\* The changes of state and the operations that make them.
ListedTransitions ==
    {<<"OPEN", "PENDING", "claim_task">>,
     <<"PENDING", "OPEN", "unclaim_task">>,
     <<"PENDING", "OPEN", "reject_task">>,
     <<"PENDING", "OPEN", "revoke_task">>,
     <<"OPEN", "APPROVED", "approve_task">>,
     <<"PENDING", "APPROVED", "approve_task">>,
     <<"APPROVED", "OPEN", "reject_task">>,
     <<"APPROVED", "OPEN", "revoke_task">>}

\* C28. In a sequential run every change of an instance's state is one of
\* OPEN->PENDING (claim), PENDING->OPEN (unclaim, reject, revoke),
\* OPEN->APPROVED and PENDING->APPROVED (approve), APPROVED->OPEN (reject,
\* revoke): no operation moves an instance from APPROVED to PENDING, which it
\* reaches again only through OPEN.
OnlyListedTransitions ==
    [][\A t \in tasks, u \in tasks' :
          (t.id = u.id /\ t.state # u.state)
              => <<t.state, u.state, last'.op>> \in ListedTransitions]_vars

\* A claim of the APPROVED one-off task has been refused: the task is still
\* APPROVED with both timestamps, and no instance is PENDING.
ApprovedNotReclaimed ==
    /\ last = [op |-> "claim_task", case |-> "APPROVED",
               err |-> Some("Task already approved")]
    /\ \E t \in tasks : /\ t.title = "Extra"
                        /\ t.state = "APPROVED"
                        /\ t.claimed_at # None
                        /\ t.approved_at # None
    /\ \A t \in tasks : t.state # "PENDING"

\* C29. Rollover gate frame: when last_reset_date is already today,
\* ensure_today_initialized adds no instance, changes none (a PENDING or
\* APPROVED instance is not reset to OPEN) and leaves last_reset_date as it
\* is, also after children or templates were added, edited or removed since the
\* rollover.
GateFrame ==
    LET Framed(w) ==
            GateClosed(w) =>
                LET after == ensure_today_initialized(w)
                IN after.tasks = w.tasks /\ after.settings = w.settings
    IN /\ Framed(World)
       /\ \A id \in TemplateIdInputs, data \in TemplateUpdateInputs :
            Framed(update_template_task(World, id, data).w)
       /\ \A c \in ChildIdInputs, data \in ChildUpdateInputs :
            Framed(update_child(World, c, data).w)

\* The state has been read again on a day whose rollover had run, while one
\* instance is PENDING, another APPROVED, and a template of today's type that
\* was added since applies to a child that has no instance of it.
GateHeld ==
    /\ last = [op |-> "build_state", case |-> "same_day", err |-> None]
    /\ \E t \in tasks : t.date = today /\ t.state = "PENDING"
    /\ \E t \in tasks : t.date = today /\ t.state = "APPROVED"
    /\ \E t \in templates, c \in children :
         /\ Applies(t, c, TemplateTypeOf(today))
         /\ ~\E i \in tasks : i.date = today /\ i.child_id = c.id /\ Copied(i) = Copied(t)

\* POST /api/parent/children bodies with every place from below the range to
\* above it, and with none.
PlaceInputs ==
    [name : {"Child 4"},
     display_order : {None} \cup {Some(k) : k \in (0 - 1) .. (MAX_CHILDREN + 1)}]

\* Whether create_child(w, data) places the new child as C30 says, on a roster
\* of N children: at N without display_order, at k for k in [0, N] with the
\* children at or after k moved up by one and the others left alone; for k
\* outside [0, N] an error and no child added.
Placed(w, data) ==
    LET res == create_child(w, data)
        N == Cardinality(w.children)
        k == IF data.display_order = None THEN N ELSE data.display_order[1]
        new == {c \in res.w.children : \A o \in w.children : o.id # c.id}
    IN IF k < 0 \/ k > N
       THEN res.err # None /\ res.w.children = w.children
       ELSE /\ res.err = None
            /\ Cardinality(new) = 1
            /\ \A c \in new : c.display_order = k /\ c.name = data.name
            /\ \A o \in w.children :
                 [o EXCEPT !.display_order = IF @ >= k THEN @ + 1 ELSE @] \in res.w.children
            /\ Cardinality(res.w.children) = N + 1
            /\ \A o, p \in w.children :
                 o.display_order < p.display_order =>
                    TheRow(res.w.children, o.id).display_order
                        < TheRow(res.w.children, p.id).display_order

\* C30 as stated: on the roster of a started server, whatever its size N,
\* create_child places the new child as described and rejects only a
\* display_order outside [0, N].
CreateChildPlaces ==
    settings # {} => \A data \in PlaceInputs : Placed(World, data)

\* C30. create_child ordering, on a roster of N < MAX_CHILDREN children:
\* without display_order the new child gets order N and no other child's order
\* changes; with k in [0, N] it gets order k, every child with order >= k moves
\* up by one, the others keep theirs and the children keep their relative
\* order; k < 0 or k > N is rejected and no child is added. On a roster of
\* MAX_CHILDREN children every create_child is rejected and no child is added.
CreateChildPlacesBelowCapacity ==
    settings # {} =>
        \A data \in PlaceInputs :
            IF Cardinality(children) < MAX_CHILDREN THEN Placed(World, data)
            ELSE LET res == create_child(World, data)
                 IN res.err # None /\ res.w.children = children

\* A child has been added at the head of the order: the three children that
\* were there have moved up by one and kept their order.
ChildPlacedFirst ==
    /\ last.op = "create_child"
    /\ last.err = None
    /\ \E c \in children : c.id > 3 /\ c.display_order = 0 /\ c.name = "Child 4"
    /\ \A i \in 1 .. 3 : \E c \in children : c.id = i /\ c.display_order = i
    /\ Cardinality(children) = 4

\* PUT /api/parent/children/{child_id} bodies that only name a place, from
\* below the range to above it.
MoveInputs ==
    {[name |-> None, display_order |-> Some(k), color |-> None] :
        k \in (0 - 1) .. MAX_CHILDREN}

\* C31. update_child reordering: on a roster of N children, for a requested
\* display_order k in [0, N-1] the updated child has order k after the call,
\* the other children keep their relative order and the orders are the indexes
\* 0 .. N-1 of the resulting sequence; k outside [0, N-1] is rejected.
UpdateChildReorders ==
    \A c \in children : \A data \in MoveInputs :
        LET res == update_child(World, c.id, data)
            N == Cardinality(children)
            k == data.display_order[1]
            after == ChildrenInOrder(res.w)
        IN IF k < 0 \/ k > N - 1
           THEN res.err # None
           ELSE /\ res.err = None
                /\ TheRow(res.w.children, c.id).display_order = k
                /\ {x.id : x \in res.w.children} = {x.id : x \in children}
                /\ Cardinality(res.w.children) = N
                /\ \A i \in 1 .. N : after[i].display_order = i - 1
                /\ \A o, p \in children \ {c} :
                     o.display_order < p.display_order =>
                        TheRow(res.w.children, o.id).display_order
                            < TheRow(res.w.children, p.id).display_order

\* The last child of three has been moved to the head of the order: the two
\* before it have each moved down by one place.
LastChildMovedFirst ==
    /\ last.op = "update_child"
    /\ last.err = None
    /\ Cardinality(children) = 3
    /\ \E a, b, c \in children :
         /\ a.id = 3 /\ a.display_order = 0
         /\ b.id = 1 /\ b.display_order = 1
         /\ c.id = 2 /\ c.display_order = 2

\* PUT /api/parent/children/{child_id} bodies whose display_order is out of
\* range on every roster, with and without a new name and a new colour.
OutOfRangeInputs ==
    [name : {None, Some("Renamed")}, display_order : {Some(0 - 1), Some(MAX_CHILDREN)},
     color : {None, Some("#FF5733")}]

\* C32. An update_child call rejected because its display_order is out of
\* range persists nothing: the child's name, colour and display_order and every
\* other child's display_order are as before the call, also when the request
\* carried a new name.
RejectedUpdatePersistsNothing ==
    \A c \in children : \A data \in OutOfRangeInputs :
        LET res == update_child(World, c.id, data)
        IN res.err # None /\ res.w = World

\* An update that carried a new name was rejected for its display_order, and
\* no child bears that name.
RejectedRenameDropped ==
    /\ last.op = "update_child"
    /\ last.err # None
    /\ last.case # "missing"
    /\ children # {}
    /\ \A c \in children : c.name # "Child 4"

\* Whether the snapshot lists every instance dated today exactly once, in the
\* list of its own category under its owning child, each list by ascending
\* sort_order.
Partitioned(w) ==
    LET w1 == ensure_today_initialized(w)
        resp == state_response(w)
        kids == resp.children
        cats == {CATEGORIES[k] : k \in 1 .. Len(CATEGORIES)}
        Places(t) == {<<i, c, j>> \in (1 .. Len(kids)) \X cats \X (1 .. Cardinality(w1.tasks)) :
                         j <= Len(kids[i].categories[c]) /\ kids[i].categories[c][j] = t.id}
    IN /\ \A t \in {u \in w1.tasks : u.date = today_str(w1)} :
            /\ Cardinality(Places(t)) = 1
            /\ \A p \in Places(t) : kids[p[1]].id = t.child_id /\ p[2] = t.category
       /\ \A i \in 1 .. Len(kids) : \A c \in cats :
            \A j \in 1 .. Len(kids[i].categories[c]) - 1 :
                TheRow(w1.tasks, kids[i].categories[c][j]).sort_order
                    <= TheRow(w1.tasks, kids[i].categories[c][j + 1]).sort_order

\* C33. Snapshot partition: in every state reachable through the admin task
\* operations, which accept any category string, build_state returns a snapshot
\* without raising, and every instance dated today appears exactly once, in the
\* list of its own category under its owning child, with each category list
\* ordered by ascending sort_order.
SnapshotPartition ==
    settings # {} => (~ build_state_raises(World) /\ Partitioned(World))

\* C34. Snapshot counters: for every child in the build_state result,
\* pending_count is the number of the child's instances dated today in state
\* PENDING, and for each category category_progress.total is the number of
\* today's instances in that category and category_progress.approved the number
\* of those in state APPROVED, so 0 <= approved <= total.
SnapshotCounters ==
    (settings # {} /\ ~ build_state_raises(World)) =>
        LET w1 == ensure_today_initialized(World)
            resp == state_response(World)
            Mine(id) == {t \in w1.tasks : t.date = today_str(w1) /\ t.child_id = id}
        IN \A i \in 1 .. Len(resp.children) :
              LET entry == resp.children[i]
              IN /\ entry.pending_count
                       = Cardinality({t \in Mine(entry.id) : t.state = "PENDING"})
                 /\ \A k \in 1 .. Len(CATEGORIES) :
                       LET progress == entry.category_progress[CATEGORIES[k]]
                           mine == {t \in Mine(entry.id) : t.category = CATEGORIES[k]}
                       IN /\ progress.total = Cardinality(mine)
                          /\ progress.approved
                                = Cardinality({t \in mine : t.state = "APPROVED"})
                          /\ 0 <= progress.approved
                          /\ progress.approved <= progress.total

\* A snapshot has been read in which the first child has one instance pending
\* and, of two schoolwork instances, one approved.
SnapshotCountsBoth ==
    /\ last.op = "build_state"
    /\ last.err = None
    /\ \E i \in 1 .. Len(state_response(World).children) :
          LET entry == state_response(World).children[i]
          IN /\ entry.id = 1
             /\ entry.pending_count = 1
             /\ entry.category_progress["SCHOOLWORK"] = [approved |-> 1, total |-> 2]

\* Whether a body sets at most one field or leaves at most one out.
NearlyUniform(body) ==
    LET set == {f \in DOMAIN body : body[f] # None}
    IN Cardinality(set) <= 1 \/ Cardinality(DOMAIN body \ set) <= 1

\* Request bodies for the two updates, each field absent or null (None) or set
\* to a value, among them the values Python counts as false: the bodies that
\* set no field, one field, all but one field or every field.
TodayBodies ==
    {body \in [category : {None, Some("HYGIENE")}, title : {None, Some("Renamed")},
               required : {None, Some(FALSE)}, reward_text : {None, Some("")},
               sort_order : {None, Some(0)}] : NearlyUniform(body)}

TemplateBodies ==
    {body \in [template_type : {None, Some("WEEKEND")},
               category : {None, Some("HYGIENE")}, title : {None, Some("Renamed")},
               required : {None, Some(FALSE)}, reward_text : {None, Some("")},
               sort_order : {None, Some(0)}, child_id : {None, Some(3)}] :
        NearlyUniform(body)}

\* The value of a column after an update: the body's value when it has one,
\* else the stored value. reward_text and child_id are stored as Optionals.
Kept(old, new) == IF new = None THEN old ELSE new[1]
KeptOptional(old, new) == IF new = None THEN old ELSE new

\* C35. Permissive updates: update_today_task and update_template_task change
\* exactly the listed fields that are present with a non-null value and leave
\* every absent or null field at its previous value (a null reward_text or
\* child_id does not clear the stored one); update_today_task never changes an
\* instance's state, timestamps, date or child_id; an unknown id returns
\* "Task not found" with no change.
PermissiveUpdates ==
    /\ \A t \in tasks : \A data \in TodayBodies :
          LET res == update_today_task(World, t.id, data)
              new == TheRow(res.w.tasks, t.id)
          IN /\ res.err = None
             /\ new.category = Kept(t.category, data.category)
             /\ new.title = Kept(t.title, data.title)
             /\ new.required = Kept(t.required, data.required)
             /\ new.reward_text = KeptOptional(t.reward_text, data.reward_text)
             /\ new.sort_order = Kept(t.sort_order, data.sort_order)
             /\ new.state = t.state
             /\ new.claimed_at = t.claimed_at
             /\ new.approved_at = t.approved_at
             /\ new.date = t.date
             /\ new.child_id = t.child_id
             /\ res.w.tasks \ {new} = tasks \ {t}
             /\ [res.w EXCEPT !.tasks = tasks] = World
    /\ \A item \in templates : \A data \in TemplateBodies :
          LET res == update_template_task(World, item.id, data)
              new == TheRow(res.w.templates, item.id)
          IN /\ res.err = None
             /\ new.template_type = Kept(item.template_type, data.template_type)
             /\ new.category = Kept(item.category, data.category)
             /\ new.title = Kept(item.title, data.title)
             /\ new.required = Kept(item.required, data.required)
             /\ new.reward_text = KeptOptional(item.reward_text, data.reward_text)
             /\ new.sort_order = Kept(item.sort_order, data.sort_order)
             /\ new.child_id = KeptOptional(item.child_id, data.child_id)
             /\ res.w.templates \ {new} = templates \ {item}
             /\ [res.w EXCEPT !.templates = templates] = World
    /\ \A data \in TodayBodies :
          update_today_task(World, NewId(tasks), data) = Fail(World, "Task not found")
    /\ \A data \in TemplateBodies :
          update_template_task(World, NewId(templates), data)
              = Fail(World, "Task not found")

\* A claimed instance with a reward has been moved to another category and
\* place by a body that left reward_text out: it kept its reward, its state
\* and its claim.
PatchedKeptReward ==
    /\ last.op = "update_today_task"
    /\ last.err = None
    /\ \E t \in tasks :
          /\ t.title = "Extra" /\ t.category = "HYGIENE" /\ t.sort_order = 0
          /\ t.reward_text = Some("+15 min")
          /\ t.state = "PENDING" /\ t.claimed_at # None

\* C36. A newly created child is never observable without its tasks: in every
\* interleaving of create_child with a concurrent build_state, a snapshot that
\* lists the new child also lists the child's backfilled instances for today,
\* so the new child is never reported unlocked = true merely because its tasks
\* have not been inserted yet.
NewChildSeenWithTasks ==
    (last.op = "build_state" /\ last.err = None) =>
        LET resp == state_response(World)
        IN \A i \in 1 .. Len(resp.children) :
              LET entry == resp.children[i]
                  due == {t \in templates :
                             Applies(t, TheRow(children, entry.id), TemplateTypeOf(today))}
              IN /\ \A t \in due :
                       \E id \in {entry.categories[t.category][j] :
                                     j \in 1 .. Len(entry.categories[t.category])} :
                           Copied(TheRow(tasks, id)) = Copied(t)
                 /\ (\E t \in due : t.required) => ~ entry.unlocked

\* Whether a required template of the day's type applies to the child.
HasRequiredTemplate(w, child_id) ==
    \E t \in w.templates :
        Applies(t, TheRow(w.children, child_id), TemplateTypeOf(w.today)) /\ t.required

\* C37 as stated: after the first rollover of a new calendar day every instance
\* dated today is OPEN with null timestamps, and build_state reports
\* unlocked = false and percent_complete = 0 for every child with at least one
\* applicable required template.
DailyReset ==
    (last.op = "build_state" /\ last.case = "new_day" /\ last.err = None) =>
        /\ \A t \in tasks :
              t.date = today =>
                  (t.state = "OPEN" /\ t.claimed_at = None /\ t.approved_at = None)
        /\ \A i \in 1 .. Len(state_response(World).children) :
              LET entry == state_response(World).children[i]
              IN HasRequiredTemplate(World, entry.id) =>
                    (~ entry.unlocked /\ entry.percent_complete = 0)

\* C37. Daily reset: the first rollover of a new calendar day adds every
\* instance it materializes as OPEN with null timestamps, whatever was APPROVED
\* or PENDING on earlier days, and leaves the instances already stored as they
\* are, among them those create_today_task added for today before the
\* rollover. build_state then reports unlocked = false for every child with at
\* least one applicable required template, and percent_complete = 0 for each
\* such child that has no APPROVED required instance dated today from before
\* the rollover.
DailyResetOfTemplates ==
    (settings # {} /\ GateCase(World) = "new_day") =>
        LET w1 == ensure_today_initialized(World)
            resp == state_response(World)
        IN /\ tasks \subseteq w1.tasks
           /\ \A t \in w1.tasks \ tasks :
                 /\ t.date = today
                 /\ t.state = "OPEN" /\ t.claimed_at = None /\ t.approved_at = None
           /\ \A i \in 1 .. Len(resp.children) :
                 LET entry == resp.children[i]
                     approved == {t \in tasks : /\ t.date = today
                                                /\ t.child_id = entry.id
                                                /\ t.required
                                                /\ t.state = "APPROVED"}
                 IN HasRequiredTemplate(w1, entry.id) =>
                       /\ ~ entry.unlocked
                       /\ approved = {} => entry.percent_complete = 0

\* The state has been read for the first time on a day that follows one on
\* which the first child had an instance approved: today's instances are all
\* OPEN.
ResetAfterApprovedDay ==
    /\ last.op = "build_state"
    /\ last.case = "new_day"
    /\ \E t \in tasks : t.date = today - 1 /\ t.child_id = 1 /\ t.state = "APPROVED"
    /\ \E t \in tasks : t.date = today /\ t.child_id = 1
    /\ \A t \in tasks : t.date = today => t.state = "OPEN"

\* The minutes the goals of a set of goal instances are worth.
RECURSIVE RewardMinutes(_)
RewardMinutes(instances) ==
    IF instances = {} THEN 0
    ELSE LET i == CHOOSE x \in instances : TRUE
         IN TheRow(kiosk.goals, i.goal_id).reward_minutes + RewardMinutes(instances \ {i})

\* C38. Reward minutes are credited at most once per goal instance: whatever
\* the child's claims and the parent's approvals on a (goal, child, day), the
\* child's minutes_balance has grown by the goal's reward_minutes at most once,
\* so it never exceeds what the child's goal instances are worth together.
RewardCreditedOnce ==
    \A x \in kiosk.wallets :
        x.minutes_balance
            <= RewardMinutes({i \in kiosk.goal_instances : i.child_id = x.child_id})

\* The wallet row of a child in the kiosk's tables kt.
WalletOf(kt, child_id) == CHOOSE x \in kt.wallets : x.child_id = child_id

\* C39. Cash-out conservation: for request_cashout(child, m) with m >= 0 the
\* increase of money_balance_cents is exchange_rate_cents times the minutes
\* actually removed from minutes_balance; a child with fewer than m minutes is
\* not credited for minutes it does not have.
CashoutConserves ==
    [][(last'.op = "request_cashout" /\ last'.err = None) =>
          \A c \in KioskChildInputs :
              WalletOf(kiosk', c).money_balance_cents - WalletOf(kiosk, c).money_balance_cents
                  = (CHOOSE st \in kiosk.settings : TRUE).exchange_rate_cents
                        * (WalletOf(kiosk, c).minutes_balance
                              - WalletOf(kiosk', c).minutes_balance)]_vars

\* Amounts of minutes a request may name: none, some, and more than a wallet
\* may hold.
AmountInputs == {0, 4, 15, MaxMinutes + 1}

\* C40. Wallet non-negativity: whatever add_minutes, spend_minutes, add_money
\* and request_cashout calls with non-negative amounts have run, every wallet's
\* minutes_balance and money_balance_cents are >= 0; spend_minutes(m) with m
\* greater than the balance sets the balance to exactly 0 and does not fail.
WalletNonNegative ==
    /\ \A x \in kiosk.wallets : x.minutes_balance >= 0 /\ x.money_balance_cents >= 0
    /\ \A x \in kiosk.wallets : \A m \in AmountInputs :
          LET after == spend_minutes(KioskWorld, x.child_id, m)
              mine == {y \in after.wallets : y.child_id = x.child_id}
          IN /\ Cardinality(mine) = 1
             /\ \A y \in mine :
                   /\ y.minutes_balance = IF m > x.minutes_balance THEN 0
                                          ELSE x.minutes_balance - m
                   /\ y.money_balance_cents = x.money_balance_cents
             /\ after.wallets \ mine = kiosk.wallets \ {x}
             /\ \A y \in request_cashout(KioskWorld, x.child_id, m).w.wallets :
                   y.minutes_balance >= 0 /\ y.money_balance_cents >= 0

\* The first child has played more minutes than it had: its balance, which
\* was positive, is 0.
PlayedBeyondBalance ==
    /\ last.op = "play"
    /\ last.case = "short"
    /\ \A x \in kiosk.wallets : x.child_id = 1 => x.minutes_balance = 0

====
